---- MODULE Spec2Model ----
(***************************************************************************)
(* HDRView, src/HDRImageIO.cpp: the load dispatcher HDRImage::load and the *)
(* packed-sample unpackers decode12/14/16BitToFloat.                       *)
(*                                                                         *)
(* Spec        HDRImage::load, one call on one file, step by step.         *)
(* SpecUnpack  the bit unpackers applied to bounded byte buffers.          *)
(***************************************************************************)
EXTENDS Integers, Sequences, FiniteSets, TLC

(***************************************************************************)
(* Bounds of the model.                                                    *)
(***************************************************************************)
\* largest decoded width and height
MaxDim == 2
\* largest number of sub-images in one DNG container
MaxImages == 2
\* largest width * height handed to an unpacker
MaxSamples == 4

VARIABLES
    \* ---- HDRImage::load ------------------------------------------------
    filename,     \* the argument, a sequence of characters
    pc,           \* position of the call in HDRImage::load
    ret,          \* "running", "true", "false", or "threw" (exception escaped)
    imgW, imgH,   \* (*this).width(), (*this).height()
    pixels,       \* what the pixel array of *this holds now
    sized,        \* history: resize(w, h) with the decoded size ran in this call
    written,      \* history: pixels were written from decoded samples in this call
    calls,        \* history: probes, decoders and pipeline steps invoked, in order
    winner,       \* history: the decoder that returned success, or "none"
    errors,       \* the local string `errors`, one element per appended line
    raised,       \* history: <<decoder, message>> of every failed decode attempt
    diag,         \* what console->error surfaced (the lines of `errors`)
    w, h,         \* the locals w and h
    loc,          \* the locals of the DNG try block (see NoLocals)
    meta,         \* history: bits_per_sample and samples_per_pixel load read
    ingest        \* history: how the stored pixels were made (see NoIngest)

loadVars == <<filename, pc, ret, imgW, imgH, pixels, sized, written, calls,
              winner, errors, raised, diag, w, h, loc, meta, ingest>>


(***************************************************************************)
(* File names and the extension tests of load.                             *)
(***************************************************************************)
Filenames ==
    { <<"i","m",".","p","n","g">>,
      <<"i","m",".","n","p","y">>,
      <<"a",".","n","p","y">>,
      <<"i","m",".","D","N","G">> }

\* ::tolower on the characters that occur in Filenames and SaveTargets
tolower(c) ==
    CASE c = "D" -> "d"
      [] c = "P" -> "p"
      [] c = "N" -> "n"
      [] c = "G" -> "g"
      [] OTHER   -> c

\* getExtension of Common.h: the characters after the last '.', none without one
getExtension(s) ==
    LET dots == {i \in 1..Len(s) : s[i] = "."}
    IN  IF dots = {} THEN <<>>
        ELSE LET last == CHOOSE i \in dots : \A j \in dots : j <= i
             IN  SubSeq(s, last + 1, Len(s))

\* faulty variant of extension: the comparison is made without lower-casing
extension_noLower(s) == getExtension(s)

\* string extension = getExtension(filename); transform(..., ::tolower)
extension(s) ==
    LET e == getExtension(s) IN [i \in 1..Len(e) |-> tolower(e[i])]

\* filename.size()>5 && filename.substr(filename.size()-4)==suffix
HasSuffix(s, suffix) ==
    /\ Len(s) > 5
    /\ SubSeq(s, Len(s) - 3, Len(s)) = suffix

DotPng == <<".","p","n","g">>
DotNpy == <<".","n","p","y">>
ExtDng == <<"d","n","g">>

(***************************************************************************)
(* Inputs: what the codecs can report about a file.                        *)
(***************************************************************************)
Dims == (1..MaxDim) \X (1..MaxDim)

\* images the call can start from: HDRImage() is 0 x 0, HDRImage(w, h) is not
PriorImages == {<<0, 0>>, <<MaxDim, 1>>}

\* values the uninitialised local n can be read as after a failed stbi_loadf
IndeterminateN == {0, 1}

Formats == <<"stb", "pfm", "npy", "exr", "dng">>

Rank(fmt) == CHOOSE i \in 1..Len(Formats) : Formats[i] = fmt

(***************************************************************************)
(* The messages load appends to `errors`.                                  *)
(***************************************************************************)
MsgStb        == "stbi_failure_reason()"
MsgPfmChan    == "Only 3-channel or 1-channel PFMs are currently supported."
MsgPfmNull    == "Could not load PFM image."
MsgPfmCodec   == "loadPFMImage: exception"
MsgNpyLoad    == "Could not load NPY image."
MsgNpyShape   == "NPY not an image."
MsgNpyType    == "Only 1- 3- 4-channel float NPYs are currently supported."
MsgExr        == "Imf: exception"
MsgDngLoad    == "Failed to load DNG. "
MsgDngData    == "vector::at: out_of_range"
MsgDngBits    == "Error loading DNG: Unsupported bits_per_sample : "
MsgDngSpp     == "Error loading DNG: Unsupported samples per pixel: "
MsgDngAlloc   == "std::bad_alloc"

\* copyPixelsFromArray, line 85: the channel counts it rejects
CopyThrows(n) == n /= 1 /\ n /= 3 /\ n /= 4

\* faulty variant of NextCandidate: NPY is tried before PFM
NextCandidate_swapped(fmt) ==
    CASE fmt = "stb" -> "npy_probe"
      [] fmt = "npy" -> "pfm_probe"
      [] fmt = "pfm" -> "exr_probe"
      [] fmt = "exr" -> "dng_load"

\* faulty variant of AfterFailure: the first failed decode ends the cascade
AfterFailure_giveUp(fmt) == "report"

(***************************************************************************)
(* The cascade of load: the candidate after fmt, in the order of the       *)
(* source text.                                                            *)
(***************************************************************************)
NextCandidate(fmt) ==
    CASE fmt = "stb" -> "pfm_probe"
      [] fmt = "pfm" -> "npy_probe"
      [] fmt = "npy" -> "exr_probe"
      [] fmt = "exr" -> "dng_load"

\* where control goes after a failed decode of fmt: the else branch of the
\* stb block and the catch blocks of pfm, npy and exr fall through
AfterFailure(fmt) == NextCandidate(fmt)

Call(fmt, op, ok) == <<fmt, op, ok>>

\* the locals of the DNG try block: the number of sub-images and the index of
\* the scan over them, orientation, largestWidth and spp.  NoLocals stands
\* for them outside their scope.
NoLocals == [n |-> 0, i |-> 0, orientation |-> 0, largestWidth |-> 0, spp |-> 0]

\* no pixel was stored in this call
NoIngest == [source |-> "none", n |-> 0, convertToLinear |-> FALSE,
             converted |-> FALSE]

\* copyPixelsFromArray, lines 119 and 142: whether SRGBToLinear is applied to
\* the pixels stored for n channels and the argument convertToLinear
Converts(n, convertToLinear) == IF n = 1 THEN TRUE ELSE convertToLinear

\* the pixels of `source` stored by copyPixelsFromArray(.., n, convertToLinear, ..)
Copied(source, n, convertToLinear) ==
    [source |-> source, n |-> n, convertToLinear |-> convertToLinear,
     converted |-> Converts(n, convertToLinear)]

\* the pixels of `source` stored one by one with no call of SRGBToLinear
\* (EXR, lines 343-350; raw, lines 443-452 and develop)
Stored(source, n) ==
    [source |-> source, n |-> n, convertToLinear |-> FALSE, converted |-> FALSE]

\* resize(w, h); copy the decoded samples into *this; return true (the locals
\* w and h end with the call)
Succeed(fmt, dw, dh, ops, how) ==
    /\ imgW' = dw
    /\ imgH' = dh
    /\ pixels' = fmt
    /\ sized' = TRUE
    /\ written' = TRUE
    /\ w' = 0
    /\ h' = 0
    /\ calls' = calls \o ops
    /\ winner' = fmt
    /\ ret' = "true"
    /\ pc' = "done"
    /\ ingest' = how
    /\ UNCHANGED <<filename, errors, raised, diag, loc, meta>>

\* an exception thrown outside every try block leaves load
Escape(ops) ==
    /\ ret' = "threw"
    /\ pc' = "done"
    /\ calls' = calls \o ops
    /\ UNCHANGED <<filename, ingest, imgW, imgH, pixels, sized, written, winner,
                   errors, raised, diag, w, h, loc, meta>>

\* lines 235-238: stbi_loadf returned NULL; errors += stbi_failure_reason()
FailStb(ops) ==
    /\ errors' = Append(errors, MsgStb)
    /\ raised' = Append(raised, <<"stb", MsgStb>>)
    /\ calls' = calls \o ops
    /\ pc' = AfterFailure("stb")
    /\ UNCHANGED <<filename, ingest, ret, imgW, imgH, pixels, sized, written, winner,
                   diag, w, h, loc, meta>>

\* the catch blocks of pfm (272-277), npy (310-314) and exr (355-359):
\* resize(0, 0); errors += e.what().  The locals w and h a failed decoder
\* wrote are not kept: every later read of them follows a new assignment.
Catch(fmt, msg, ops, didResize) ==
    /\ imgW' = 0
    /\ imgH' = 0
    /\ pixels' = "unset"
    /\ sized' = (sized \/ didResize)
    /\ errors' = Append(errors, msg)
    /\ raised' = Append(raised, <<fmt, msg>>)
    /\ calls' = calls \o ops
    /\ pc' = AfterFailure(fmt)
    /\ UNCHANGED <<filename, ingest, ret, written, winner, diag, w, h, loc, meta>>

\* a probe: record it and go to the decoder or to the next candidate
Probe(fmt, op, matched, decodePc) ==
    /\ calls' = Append(calls, Call(fmt, op, matched))
    /\ pc' = IF matched THEN decodePc ELSE NextCandidate(fmt)
    /\ UNCHANGED <<filename, ingest, ret, imgW, imgH, pixels, sized, written, winner,
                   errors, raised, diag, w, h, loc, meta>>

(***************************************************************************)
(* stb: lines 192-239.                                                     *)
(***************************************************************************)
ProbeSTB ==
    /\ pc = "stb_probe"
    /\ \E matched \in BOOLEAN : Probe("stb", "isSTBImage", matched, "stb_decode")

\* ok, d, ch, bpc: whether stb decodes the file, and its size, channel count
\* and bits per channel; garbage: the value n is read as when stbi_loadf
\* failed and left it unwritten; isHdr: stbi_is_hdr(filename)
DecodeSTB ==
    /\ pc = "stb_decode"
    /\ \E ok \in BOOLEAN, d \in Dims, ch \in 1..4, bpc \in {8, 16},
          garbage \in IndeterminateN, isHdr \in BOOLEAN :
         LET n      == IF ok THEN ch ELSE garbage
             again  == n = 1 /\ HasSuffix(filename, DotPng)
             bits   == IF ok THEN bpc ELSE 8
             first  == <<Call("stb", "stbi_loadf", ok)>>
             second == <<Call("stb", "stbi__load_main", ok)>>
         IN  IF again /\ bits = 16
             THEN IF CopyThrows(n)
                  THEN Escape(first \o second)
                  ELSE Succeed("stb", d[1], d[2], first \o second,
                               Copied("ldr", n, FALSE))
             ELSE LET ops == IF again THEN first \o second ELSE first
                  IN  IF ok
                      THEN IF CopyThrows(4)
                           THEN Escape(ops)
                           ELSE Succeed("stb", d[1], d[2], ops,
                                        Copied(IF isHdr THEN "hdr" ELSE "ldr",
                                               4, ~isHdr))
                      ELSE FailStb(ops)

(***************************************************************************)
(* PFM: lines 243-278.                                                     *)
(***************************************************************************)
ProbePFM ==
    /\ pc = "pfm_probe"
    /\ \E matched \in BOOLEAN : Probe("pfm", "isPFMImage", matched, "pfm_decode")

\* out: loadPFMImage returns data, returns NULL, or throws
DecodePFM ==
    /\ pc = "pfm_decode"
    /\ \E out \in {"data", "null", "throws"}, d \in Dims, n \in 1..4 :
         LET op(ok) == <<Call("pfm", "loadPFMImage", ok)>>
         IN  CASE out = "throws" -> Catch("pfm", MsgPfmCodec, op(FALSE), FALSE)
               [] out = "null"   -> Catch("pfm", MsgPfmNull, op(FALSE), FALSE)
               [] out = "data"   ->
                    IF n = 3 \/ n = 1
                    THEN IF CopyThrows(n)
                         THEN Catch("pfm", "copyPixelsFromArray", op(TRUE), TRUE)
                         ELSE Succeed("pfm", d[1], d[2], op(TRUE),
                                      Copied("pfm", n, FALSE))
                    ELSE Catch("pfm", MsgPfmChan, op(TRUE), FALSE)

(***************************************************************************)
(* NPY: lines 282-315.                                                     *)
(***************************************************************************)
ProbeNPY ==
    /\ pc = "npy_probe"
    /\ Probe("npy", "suffix .npy", HasSuffix(filename, DotNpy), "npy_decode")

\* line 308: return true with neither resize nor copy (4-channel uint8)
ReturnUntouched(fmt, ops) ==
    /\ w' = 0
    /\ h' = 0
    /\ calls' = calls \o ops
    /\ winner' = fmt
    /\ ret' = "true"
    /\ pc' = "done"
    /\ UNCHANGED <<filename, ingest, imgW, imgH, pixels, sized, written, errors,
                   raised, diag, loc, meta>>

\* loaded: LoadNPY returned NULL (no error); rank: Shape().size();
\* d, c: Shape()[1], Shape()[0], Shape()[2]; type: ValueType()
DecodeNPY ==
    /\ pc = "npy_decode"
    /\ \E loaded \in BOOLEAN, rank \in 1..4, d \in Dims, c \in 1..4,
          type \in {"float", "uint8", "double"} :
         LET n      == IF rank = 2 THEN 1 ELSE c
             op(ok) == <<Call("npy", "LoadNPY", ok)>>
         IN  IF ~loaded
             THEN Catch("npy", MsgNpyLoad, op(FALSE), FALSE)
             ELSE IF rank < 2 \/ rank > 3
             THEN Catch("npy", MsgNpyShape, op(TRUE), FALSE)
             ELSE IF (n = 3 \/ n = 4 \/ n = 1) /\ type = "float"
             THEN IF CopyThrows(n)
                  THEN Catch("npy", "copyPixelsFromArray", op(TRUE), TRUE)
                  ELSE Succeed("npy", d[1], d[2], op(TRUE),
                               Copied("npy", n, FALSE))
             ELSE IF n /= 4 \/ type /= "uint8"
             THEN Catch("npy", MsgNpyType, op(TRUE), FALSE)
             ELSE ReturnUntouched("npy", op(TRUE))

(***************************************************************************)
(* OpenEXR: lines 318-360.                                                 *)
(***************************************************************************)
ProbeEXR ==
    /\ pc = "exr_probe"
    /\ \E matched \in BOOLEAN : Probe("exr", "isOpenExrFile", matched, "exr_decode")

DecodeEXR ==
    /\ pc = "exr_decode"
    /\ \E ok \in BOOLEAN, d \in Dims :
         IF ok
         THEN Succeed("exr", d[1], d[2], <<Call("exr", "RgbaInputFile", TRUE)>>,
                      Stored("exr", 4))
         ELSE Catch("exr", MsgExr, <<Call("exr", "RgbaInputFile", FALSE)>>, FALSE)

(***************************************************************************)
(* DNG: lines 362-509.                                                     *)
(***************************************************************************)
OrientationCodes == 0..9

\* what load reads of each sub-image while choosing one: width and orientation
DngImage == [width : 1..MaxDim, orientation : OrientationCodes]

\* faulty variant of DngCatch: the handler does not empty the image
DngCatch_noResize(msg, ops) ==
    /\ errors' = IF extension(filename) = ExtDng
                 THEN Append(errors, msg) ELSE errors
    /\ raised' = Append(raised, <<"dng", msg>>)
    /\ calls' = calls \o ops
    /\ loc' = NoLocals
    /\ pc' = "report"
    /\ UNCHANGED <<filename, ingest, ret, imgW, imgH, pixels, sized, written, winner,
                   diag, w, h>>

\* the catch block of the DNG branch, lines 503-509: resize(0,0), and the
\* message is kept only when the lower-cased extension is "dng".  The locals
\* of the try block are gone in the handler.
DngCatch(msg, ops) ==
    /\ imgW' = 0
    /\ imgH' = 0
    /\ pixels' = "unset"
    /\ errors' = IF extension(filename) = ExtDng
                 THEN Append(errors, msg) ELSE errors
    /\ raised' = Append(raised, <<"dng", msg>>)
    /\ calls' = calls \o ops
    /\ loc' = NoLocals
    /\ pc' = "report"
    /\ UNCHANGED <<filename, ingest, ret, sized, written, winner, diag, w, h>>

\* lines 364-376 and 386-389: LoadDNG; the container holds k sub-images
DngLoad ==
    /\ pc = "dng_load"
    /\ \E ok \in BOOLEAN :
         IF ~ok
         THEN DngCatch(MsgDngLoad, <<Call("dng", "LoadDNG", FALSE)>>) /\ UNCHANGED meta
         ELSE \E k \in 1..MaxImages :
                /\ loc' = [NoLocals EXCEPT !.n = k]
                /\ calls' = Append(calls, Call("dng", "LoadDNG", TRUE))
                /\ pc' = "dng_scan"
                /\ UNCHANGED <<filename, ingest, ret, imgW, imgH, pixels, sized,
                               written, winner, errors, raised, diag, w, h, meta>>

\* lines 377-383 and 390-397: iteration loc.i of the two loops over the
\* sub-images, which read the same unchanged vector; image is images[loc.i].
\* orientation becomes the last one that is not 0, largestWidth the width of
\* the first image of the greatest width (images[0].width before the loop).
DngScan ==
    /\ pc = "dng_scan"
    /\ \E image \in DngImage :
         /\ loc' = [loc EXCEPT
                      !.i = @ + 1,
                      !.orientation = IF image.orientation /= 0
                                      THEN image.orientation ELSE @,
                      !.largestWidth = IF loc.i = 0 \/ @ < image.width
                                       THEN image.width ELSE @]
         /\ pc' = IF loc.i + 1 = loc.n THEN "dng_unpack" ELSE "dng_scan"
    /\ UNCHANGED <<filename, ingest, ret, imgW, imgH, pixels, sized, written, calls,
                   winner, errors, raised, diag, w, h, meta>>

BitDepths == {8, 12, 14, 16}

\* faulty variant of Unpacker: every other depth is read as 16-bit samples
Unpacker_default16(bits) ==
    CASE bits = 12 -> "decode12BitToFloat"
      [] bits = 14 -> "decode14BitToFloat"
      [] OTHER     -> "decode16BitToFloat"

\* lines 419-426: the unpacker chosen for a bit depth
Unpacker(bits) ==
    CASE bits = 12 -> "decode12BitToFloat"
      [] bits = 14 -> "decode14BitToFloat"
      [] bits = 16 -> "decode16BitToFloat"
      [] OTHER     -> "unsupported"

\* lines 401-426: w and h of the chosen image, then the unpacker;
\* image.data.at(0) throws out_of_range on an empty buffer
DngUnpack ==
    /\ pc = "dng_unpack"
    /\ \E height \in 1..MaxDim, bits \in BitDepths, s \in 1..4, empty \in BOOLEAN :
         /\ meta' = [bits |-> bits, spp |-> s]
         /\ IF Unpacker(bits) = "unsupported"
            THEN DngCatch(MsgDngBits, <<>>)
            ELSE IF empty
            THEN DngCatch(MsgDngData, <<>>)
            ELSE
              /\ w' = loc.largestWidth
              /\ h' = height
              /\ loc' = [NoLocals EXCEPT !.orientation = loc.orientation,
                                         !.spp = s]
              /\ calls' = Append(calls, Call("dng", Unpacker(bits), TRUE))
              /\ pc' = "dng_develop"
              /\ UNCHANGED <<filename, ingest, ret, imgW, imgH, pixels, sized, written,
                             winner, errors, raised, diag>>

\* faulty variant of DevelopPath: every count other than 1 is replicated
DevelopPath_notOne(s) ==
    CASE s = 1 -> "develop"
      [] OTHER -> "replicate"

\* lines 429-464: the development path chosen for a samples-per-pixel count
DevelopPath(s) ==
    CASE s = 3 -> "replicate"
      [] s = 1 -> "develop"
      [] OTHER -> "unsupported"

\* the steps of develop(), lines 723-779
DevelopSteps ==
    <<Call("dng", "develop: normalize, white balance", TRUE),
      Call("dng", "demosaicAHD", TRUE),
      Call("dng", "develop: color correction", TRUE)>>

\* the steps of the 3-samples-per-pixel branch, lines 431-453
ReplicateSteps ==
    <<Call("dng", "normalize", TRUE),
      Call("dng", "normalize and replicate", TRUE)>>

\* lines 428-464
DngDevelop ==
    /\ pc = "dng_develop"
    /\ IF DevelopPath(loc.spp) = "unsupported"
       THEN DngCatch(MsgDngSpp, <<>>) /\ UNCHANGED meta
       ELSE /\ imgW' = w
            /\ imgH' = h
            /\ pixels' = "dng"
            /\ sized' = TRUE
            /\ written' = TRUE
            /\ calls' = calls \o (IF DevelopPath(loc.spp) = "replicate"
                                  THEN ReplicateSteps ELSE DevelopSteps)
            /\ pc' = "dng_crop"
            /\ ingest' = Stored("dng", loc.spp)
            /\ UNCHANGED <<filename, ret, winner, errors, raised, diag, w, h,
                           loc, meta>>

\* clamp of Common.h
clamp(v, lo, hi) == IF v < lo THEN lo ELSE IF v > hi THEN hi ELSE v

\* values of the active_area entries: before the image, inside it, beyond it
AreaVals == {-1, 1, MaxDim + 1}

\* faulty variant of OrientOps: case 3 has lost its second call and the
\* default case flips
OrientOps_threeIsVertical(o) ==
    CASE o = 2 -> <<"flippedHorizontal">>
      [] o = 3 -> <<"flippedVertical">>
      [] o = 4 -> <<"flippedVertical">>
      [] o = 5 -> <<"rotated90CCW", "flippedVertical">>
      [] o = 6 -> <<"rotated90CW">>
      [] o = 7 -> <<"rotated90CW", "flippedVertical">>
      [] o = 8 -> <<"rotated90CCW">>
      [] OTHER -> <<"flippedHorizontal">>

\* lines 489-499: the transforms of an orientation code, in call order
OrientOps(o) ==
    CASE o = 2 -> <<"flippedHorizontal">>
      [] o = 3 -> <<"flippedVertical", "flippedHorizontal">>
      [] o = 4 -> <<"flippedVertical">>
      [] o = 5 -> <<"rotated90CCW", "flippedVertical">>
      [] o = 6 -> <<"rotated90CW">>
      [] o = 7 -> <<"rotated90CW", "flippedVertical">>
      [] o = 8 -> <<"rotated90CCW">>
      [] OTHER -> <<>>

Rotates(op) == op = "rotated90CW" \/ op = "rotated90CCW"

\* lines 472-501: *this = block(...).eval(); the orientation switch; return true
CropOrientReturn(nw, nh, defined) ==
    LET ops  == OrientOps(loc.orientation)
        turn == \E i \in 1..Len(ops) : Rotates(ops[i])
    IN  /\ imgW' = IF turn THEN nh ELSE nw
        /\ imgH' = IF turn THEN nw ELSE nh
        /\ pixels' = IF defined THEN pixels ELSE "unset"
        /\ calls' = calls \o <<Call("dng", "block", defined)>>
                          \o [i \in 1..Len(ops) |-> Call("dng", ops[i], TRUE)]
        /\ winner' = "dng"
        /\ ret' = "true"
        /\ pc' = "done"
        /\ w' = 0
        /\ h' = 0
        /\ loc' = NoLocals
        /\ UNCHANGED <<filename, ingest, sized, written, errors, raised, diag, meta>>

\* lines 467-501; area[k + 1] is image.active_area[k].  A block of negative
\* extent is undefined in Eigen: the allocation throws, or load goes on with
\* the extents it computed and an unspecified pixel array.
DngFinish ==
    /\ pc = "dng_crop"
    /\ \E area \in [1..4 -> AreaVals] :
         LET startRow == clamp(area[2], 0, w)
             endRow   == clamp(area[4], 0, w)
             startCol == clamp(area[1], 0, h)
             endCol   == clamp(area[3], 0, h)
             nw       == endRow - startRow
             nh       == endCol - startCol
         IN  IF nw >= 0 /\ nh >= 0
             THEN CropOrientReturn(nw, nh, TRUE)
             ELSE \E ub \in {"throws", "goes on"} :
                    IF ub = "throws"
                    THEN DngCatch(MsgDngAlloc, <<Call("dng", "block", FALSE)>>)
                         /\ UNCHANGED meta
                    ELSE CropOrientReturn(nw, nh, FALSE)

\* lines 511-513: console->error(..., errors); return false
Report ==
    /\ pc = "report"
    /\ diag' = errors
    /\ ret' = "false"
    /\ pc' = "done"
    /\ w' = 0
    /\ h' = 0
    /\ UNCHANGED <<filename, ingest, imgW, imgH, pixels, sized, written, calls, winner,
                   errors, raised, loc, meta>>

(***************************************************************************)
(* The unpackers decode12BitToFloat, decode14BitToFloat and                *)
(* decode16BitToFloat, one call on one buffer, one pixel of the loop per   *)
(* step.  The rows of parallel_for write disjoint elements of `image`, so  *)
(* the pixels are taken in index order.                                    *)
(*                                                                         *)
(* `data` is a bare pointer in the code; its extent is the packed size of  *)
(* width * height samples, ceil(depth * width * height / 8) bytes.  A load *)
(* from an index outside it is undefined: it yields some byte or the call  *)
(* faults.                                                                 *)
(***************************************************************************)
VARIABLES
    \* ---- decodeNNBitToFloat ---------------------------------------------
    depth,        \* 12, 14 or 16: which unpacker is called
    data,         \* the bytes `data` points to, data[1] is the code's data[0]
    width, height,\* the arguments width and height
    swapEndian,   \* the argument swapEndian
    samples,      \* history: the sample array `data` was packed from
    image,        \* the vector `image`
    px,           \* pixels of the loop done so far
    reads,        \* history: the indices of `data` loaded so far
    upc           \* "idle", "call", "loop", "done", or "fault"

unpackVars == <<depth, data, width, height, swapEndian, samples, image, px,
                reads, upc>>

Pow2(k) == 2 ^ k

\* sample values: patterns that set and clear every bit position
SampleVals(bits) ==
    CASE bits = 12 -> {3010, 2579, 1085}
      [] bits = 14 -> {10940, 5443, 16383}
      [] bits = 16 -> {43981, 4660, 255}

\* what a load outside the buffer may yield
StrayBytes == {0, 165}

Shapes == {s \in (1..MaxSamples) \X (1..MaxSamples) : s[1] * s[2] <= MaxSamples}

\* bytes of the packed form of n samples of the given depth
PackedSize(bits, n) == (bits * n + 7) \div 8

\* bit k (0 = first) of the stream that holds the samples one after the
\* other, most significant bit first, zero after the last sample
StreamBit(seq, bits, k) ==
    LET i == k \div bits
        j == k % bits
    IN  IF i < Len(seq) THEN (seq[i + 1] \div Pow2(bits - 1 - j)) % 2 ELSE 0

\* the stream cut into bytes, first bit of a byte its most significant
PackMSB(seq, bits) ==
    [b \in 1..PackedSize(bits, Len(seq)) |->
       LET bit(t) == StreamBit(seq, bits, 8 * (b - 1) + t)
       IN  128 * bit(0) + 64 * bit(1) + 32 * bit(2) + 16 * bit(3)
           + 8 * bit(4) + 4 * bit(5) + 2 * bit(6) + bit(7)]

\* an array of unsigned short in the memory of the (little-endian) host
StoreNative16(seq) ==
    [b \in 1..(2 * Len(seq)) |->
       LET v == seq[(b + 1) \div 2]
       IN  IF b % 2 = 1 THEN v % 256 ELSE v \div 256]

Packed(seq, bits) ==
    IF bits = 16 THEN StoreNative16(seq) ELSE PackMSB(seq, bits)

\* lines 782-793: the two bytes of val stored high byte first, read back
\* as an unsigned short of the (little-endian) host
endianSwap(val) ==
    LET buf == <<val \div 256, val % 256>>
    IN  buf[1] + 256 * buf[2]

\* line 806
offsets12 == <<<<0, 1>>, <<1, 2>>>>

\* faulty variant of bitShifts12: the two shifts are exchanged
bitShifts12_exchanged == <<0, 4>>

\* line 807
bitShifts12 == <<4, 0>>

\* line 874
offsets14 == <<<<0, 0, 1>>, <<1, 2, 3>>, <<3, 4, 5>>, <<5, 5, 6>>>>

\* faulty variant of bitShifts14: the shifts are in the order of the bit offsets
bitShifts14_ascending == <<0, 2, 4, 6>>

\* line 875
bitShifts14 == <<2, 4, 6, 0>>

\* lines 832-853: the indices of data loaded into buf[0], buf[1], buf[2]
Loads12(addr3, odd, swap) ==
    IF swap
    THEN IF odd /= 0
         THEN <<addr3 - 1, addr3 + 2, addr3 + 1>>
         ELSE <<addr3 + 1, addr3 + 0, addr3 + 3>>
    ELSE <<addr3 + 0, addr3 + 1, addr3 + 2>>

\* lines 854-858
Value12(buf, n2) ==
    LET bit_shift == bitShifts12[n2 + 1]
        offset == offsets12[n2 + 1]
        b0 == buf[offset[1] + 1] % 256
        b1 == buf[offset[2] + 1] % 256
        val == b0 * 256 + b1
    IN  (val \div Pow2(bit_shift)) % 4096

\* lines 901-928: the indices of data loaded into buf[0] .. buf[6]
Loads14(addr7, odd, swap) ==
    IF swap
    THEN IF odd /= 0
         THEN <<addr7 - 1, addr7 + 2, addr7 + 1, addr7 + 4, addr7 + 3,
                addr7 + 6, addr7 + 5>>
         ELSE <<addr7 + 1, addr7 + 0, addr7 + 3, addr7 + 2, addr7 + 5,
                addr7 + 4, addr7 + 7>>
    ELSE [k \in 1..7 |-> addr7 + k - 1]

\* lines 929-937
Value14(buf, n4) ==
    LET bit_shift == bitShifts14[n4 + 1]
        offset == offsets14[n4 + 1]
        b0 == buf[offset[1] + 1] % 256
        b1 == buf[offset[2] + 1] % 256
        b2 == buf[offset[3] + 1] % 256
        val == b0 * 65536 + b1 * 256 + b2
    IN  (val \div Pow2(bit_shift)) % 16384

\* line 960: ptr[n], the unsigned short at bytes 2n and 2n+1
Loads16(n) == <<2 * n, 2 * n + 1>>

\* lines 960-962
Value16(buf, swap) ==
    LET val == buf[1] + 256 * buf[2]
    IN  IF swap THEN endianSwap(val) ELSE val

InBuffer(a) == a >= 0 /\ a < Len(data)

\* the value stored for pixel n from the bytes in buf, by the unpacker called
Value(buf, n) ==
    CASE depth = 12 -> Value12(buf, n % 2)
      [] depth = 14 -> Value14(buf, n % 4)
      [] depth = 16 -> Value16(buf, swapEndian)

\* one pixel n of a loop: load the bytes at addrs, store the value in image
Pixel(addrs, n) ==
    LET outside == {a \in {addrs[k] : k \in 1..Len(addrs)} : ~InBuffer(a)}
    IN  \E stray \in [outside -> StrayBytes],
           faults \in IF outside = {} THEN {FALSE} ELSE BOOLEAN :
          LET buf == [k \in 1..Len(addrs) |->
                        IF InBuffer(addrs[k]) THEN data[addrs[k] + 1]
                                              ELSE stray[addrs[k]]]
          IN  /\ reads' = reads \cup {addrs[k] : k \in 1..Len(addrs)}
              /\ IF faults
                 THEN /\ upc' = "fault"
                      /\ UNCHANGED <<image, px>>
                 ELSE /\ image' = [image EXCEPT ![n + 1] = Value(buf, n)]
                      /\ px' = px + 1
                      /\ upc' = upc
              /\ UNCHANGED <<depth, data, width, height, swapEndian, samples>>

\* lines 809, 877, 953: image.resize(width * height)
Resize ==
    /\ upc = "call"
    /\ image' = [i \in 1..(width * height) |-> 0]
    /\ upc' = "loop"
    /\ UNCHANGED <<depth, data, width, height, swapEndian, samples, px, reads>>

\* lines 813-861
Decode12Pixel ==
    /\ upc = "loop"
    /\ depth = 12
    /\ px < width * height
    /\ LET y == px \div width
           x == px % width
           n == y * width + x
           addr3 == (n \div 2) * 3
           odd == addr3 % 2
       IN  Pixel(Loads12(addr3, odd, swapEndian), n)

\* lines 881-940
Decode14Pixel ==
    /\ upc = "loop"
    /\ depth = 14
    /\ px < width * height
    /\ LET y == px \div width
           x == px % width
           n == y * width + x
           addr7 == (n \div 4) * 7
           odd == addr7 % 2
       IN  Pixel(Loads14(addr7, odd, swapEndian), n)

\* lines 958-966
Decode16Pixel ==
    /\ upc = "loop"
    /\ depth = 16
    /\ px < width * height
    /\ LET y == px \div width
           x == px % width
           n == y * width + x
       IN  Pixel(Loads16(n), n)

\* the end of parallel_for: the unpacker returns
DecodeReturn ==
    /\ upc = "loop"
    /\ px = width * height
    /\ upc' = "done"
    /\ UNCHANGED <<depth, data, width, height, swapEndian, samples, image, px,
                   reads>>

(***************************************************************************)
(* The other operations of the file, each modelled as one call: the state  *)
(* of a call is a record with the names of the source, and [pc |-> "idle"] *)
(* while no such call is made.                                             *)
(***************************************************************************)
VARIABLES
    copyCall,     \* a call of copyPixelsFromArray
    saveCall,     \* a call of HDRImage::save, and of load on the file it wrote
    cropCall,     \* the crop and orientation of a developed raw image
    stageRun      \* the row-parallel stages of a pipeline

vars == <<loadVars, unpackVars, copyCall, saveCall, cropCall, stageRun>>

Idle == [pc |-> "idle"]

besidesLoad == <<unpackVars, copyCall, saveCall, cropCall, stageRun>>

besidesUnpack == <<loadVars, copyCall, saveCall, cropCall, stageRun>>

\* no unpacker is running
UnpackIdle ==
    /\ depth = 0
    /\ data = <<>>
    /\ width = 0
    /\ height = 0
    /\ swapEndian = FALSE
    /\ samples = <<>>
    /\ image = <<>>
    /\ px = 0
    /\ reads = {}
    /\ upc = "idle"

\* no load is running
LoadIdle ==
    /\ filename = <<>>
    /\ imgW = 0
    /\ imgH = 0
    /\ pixels = "unset"
    /\ pc = "idle"
    /\ ret = "idle"
    /\ sized = FALSE
    /\ written = FALSE
    /\ calls = <<>>
    /\ winner = "none"
    /\ errors = <<>>
    /\ raised = <<>>
    /\ diag = <<>>
    /\ w = 0
    /\ h = 0
    /\ loc = NoLocals
    /\ meta = [bits |-> 0, spp |-> 0]
    /\ ingest = NoIngest

\* a call of an unpacker on the packed form of a sample array
InitUnpack ==
    /\ LoadIdle
    /\ copyCall = Idle
    /\ saveCall = Idle
    /\ cropCall = Idle
    /\ stageRun = Idle
    /\ depth \in {12, 14, 16}
    /\ \E shape \in Shapes : width = shape[1] /\ height = shape[2]
    /\ samples \in [1..(width * height) -> SampleVals(depth)]
    /\ data = Packed(samples, depth)
    /\ swapEndian \in BOOLEAN
    /\ image = <<>>
    /\ px = 0
    /\ reads = {}
    /\ upc = "call"

NextUnpack ==
    \/ Resize /\ UNCHANGED besidesUnpack
    \/ Decode12Pixel /\ UNCHANGED besidesUnpack
    \/ Decode14Pixel /\ UNCHANGED besidesUnpack
    \/ Decode16Pixel /\ UNCHANGED besidesUnpack
    \/ DecodeReturn /\ UNCHANGED besidesUnpack

SpecUnpack == InitUnpack /\ [][NextUnpack]_vars

(***************************************************************************)
(* One call of HDRImage::load on one file.                                 *)
(***************************************************************************)
Init ==
    /\ filename \in Filenames
    /\ \E prior \in PriorImages : imgW = prior[1] /\ imgH = prior[2]
    /\ pixels = "prior"
    /\ pc = "stb_probe"
    /\ ret = "running"
    /\ sized = FALSE
    /\ written = FALSE
    /\ calls = <<>>
    /\ winner = "none"
    /\ errors = <<>>
    /\ raised = <<>>
    /\ diag = <<>>
    /\ w = 0
    /\ h = 0
    /\ loc = NoLocals
    /\ meta = [bits |-> 0, spp |-> 0]
    /\ ingest = NoIngest
    /\ UnpackIdle
    /\ copyCall = Idle
    /\ saveCall = Idle
    /\ cropCall = Idle
    /\ stageRun = Idle

Next ==
    \/ ProbeSTB /\ UNCHANGED besidesLoad
    \/ DecodeSTB /\ UNCHANGED besidesLoad
    \/ ProbePFM /\ UNCHANGED besidesLoad
    \/ DecodePFM /\ UNCHANGED besidesLoad
    \/ ProbeNPY /\ UNCHANGED besidesLoad
    \/ DecodeNPY /\ UNCHANGED besidesLoad
    \/ ProbeEXR /\ UNCHANGED besidesLoad
    \/ DecodeEXR /\ UNCHANGED besidesLoad
    \/ DngLoad /\ UNCHANGED besidesLoad
    \/ DngScan /\ UNCHANGED besidesLoad
    \/ DngUnpack /\ UNCHANGED besidesLoad
    \/ DngDevelop /\ UNCHANGED besidesLoad
    \/ DngFinish /\ UNCHANGED besidesLoad
    \/ Report /\ UNCHANGED besidesLoad

Spec == Init /\ [][Next]_vars

(***************************************************************************)
(* copyPixelsFromArray, lines 83-146, one call, one row of parallel_for    *)
(* per step, the rows in any order, on the arguments load passes.          *)
(*                                                                         *)
(* A channel value v is held as the level 255 * v, so 255 stands for 1.f.  *)
(* A Color4 is <<r, g, b, a>>.  img maps <<x, y>> to the Color4 stored     *)
(* there, or to Unwritten.                                                 *)
(***************************************************************************)
\* largest w * h of an image
MaxPixels == 2

ImageShapes == {s \in (1..MaxPixels) \X (1..MaxPixels) : s[1] * s[2] <= MaxPixels}

\* line 91: turboRGBf, each entry rounded to a level
turboRGBf ==
    <<<<48, 18, 59>>, <<50, 21, 67>>, <<51, 24, 74>>, <<52, 27, 81>>, <<53, 30, 88>>,
      <<54, 33, 95>>, <<55, 36, 102>>, <<56, 39, 109>>, <<57, 42, 115>>, <<58, 45, 121>>,
      <<59, 47, 128>>, <<60, 50, 134>>, <<61, 53, 139>>, <<62, 56, 145>>, <<63, 59, 151>>,
      <<63, 62, 156>>, <<64, 64, 162>>, <<65, 67, 167>>, <<65, 70, 172>>, <<66, 73, 177>>,
      <<66, 75, 181>>, <<67, 78, 186>>, <<68, 81, 191>>, <<68, 84, 195>>, <<68, 86, 199>>,
      <<69, 89, 203>>, <<69, 92, 207>>, <<69, 94, 211>>, <<70, 97, 214>>, <<70, 100, 218>>,
      <<70, 102, 221>>, <<70, 105, 224>>, <<70, 107, 227>>, <<71, 110, 230>>, <<71, 113, 233>>,
      <<71, 115, 235>>, <<71, 118, 238>>, <<71, 120, 240>>, <<71, 123, 242>>, <<70, 125, 244>>,
      <<70, 128, 246>>, <<70, 130, 248>>, <<70, 133, 250>>, <<70, 135, 251>>, <<69, 138, 252>>,
      <<69, 140, 253>>, <<68, 143, 254>>, <<67, 145, 254>>, <<66, 148, 255>>, <<65, 150, 255>>,
      <<64, 153, 255>>, <<62, 155, 254>>, <<61, 158, 254>>, <<59, 160, 253>>, <<58, 163, 252>>,
      <<56, 165, 251>>, <<55, 168, 250>>, <<53, 171, 248>>, <<51, 173, 247>>, <<49, 175, 245>>,
      <<47, 178, 244>>, <<46, 180, 242>>, <<44, 183, 240>>, <<42, 185, 238>>, <<40, 188, 235>>,
      <<39, 190, 233>>, <<37, 192, 231>>, <<35, 195, 228>>, <<34, 197, 226>>, <<32, 199, 223>>,
      <<31, 201, 221>>, <<30, 203, 218>>, <<28, 205, 216>>, <<27, 208, 213>>, <<26, 210, 210>>,
      <<26, 212, 208>>, <<25, 213, 205>>, <<24, 215, 202>>, <<24, 217, 200>>, <<24, 219, 197>>,
      <<24, 221, 194>>, <<24, 222, 192>>, <<24, 224, 189>>, <<25, 226, 187>>, <<25, 227, 185>>,
      <<26, 228, 182>>, <<28, 230, 180>>, <<29, 231, 178>>, <<31, 233, 175>>, <<32, 234, 172>>,
      <<34, 235, 170>>, <<37, 236, 167>>, <<39, 238, 164>>, <<42, 239, 161>>, <<44, 240, 158>>,
      <<47, 241, 155>>, <<50, 242, 152>>, <<53, 243, 148>>, <<56, 244, 145>>, <<60, 245, 142>>,
      <<63, 246, 138>>, <<67, 247, 135>>, <<70, 248, 132>>, <<74, 248, 128>>, <<78, 249, 125>>,
      <<82, 250, 122>>, <<85, 250, 118>>, <<89, 251, 115>>, <<93, 252, 111>>, <<97, 252, 108>>,
      <<101, 253, 105>>, <<105, 253, 102>>, <<109, 254, 98>>, <<113, 254, 95>>, <<117, 254, 92>>,
      <<121, 254, 89>>, <<125, 255, 86>>, <<128, 255, 83>>, <<132, 255, 81>>, <<136, 255, 78>>,
      <<139, 255, 75>>, <<143, 255, 73>>, <<146, 255, 71>>, <<150, 254, 68>>, <<153, 254, 66>>,
      <<156, 254, 64>>, <<159, 253, 63>>, <<161, 253, 61>>, <<164, 252, 60>>, <<167, 252, 58>>,
      <<169, 251, 57>>, <<172, 251, 56>>, <<175, 250, 55>>, <<177, 249, 54>>, <<180, 248, 54>>,
      <<183, 247, 53>>, <<185, 246, 53>>, <<188, 245, 52>>, <<190, 244, 52>>, <<193, 243, 52>>,
      <<195, 241, 52>>, <<198, 240, 52>>, <<200, 239, 52>>, <<203, 237, 52>>, <<205, 236, 52>>,
      <<208, 234, 52>>, <<210, 233, 53>>, <<212, 231, 53>>, <<215, 229, 53>>, <<217, 228, 54>>,
      <<219, 226, 54>>, <<221, 224, 55>>, <<223, 223, 55>>, <<225, 221, 55>>, <<227, 219, 56>>,
      <<229, 217, 56>>, <<231, 215, 57>>, <<233, 213, 57>>, <<235, 211, 57>>, <<236, 209, 58>>,
      <<238, 207, 58>>, <<239, 205, 58>>, <<241, 203, 58>>, <<242, 201, 58>>, <<244, 199, 58>>,
      <<245, 197, 58>>, <<246, 195, 58>>, <<247, 193, 58>>, <<248, 190, 57>>, <<249, 188, 57>>,
      <<250, 186, 57>>, <<251, 184, 56>>, <<251, 182, 55>>, <<252, 179, 54>>, <<252, 177, 54>>,
      <<253, 174, 53>>, <<253, 172, 52>>, <<254, 169, 51>>, <<254, 167, 50>>, <<254, 164, 49>>,
      <<254, 161, 48>>, <<254, 158, 47>>, <<254, 155, 45>>, <<254, 153, 44>>, <<254, 150, 43>>,
      <<254, 147, 42>>, <<254, 144, 41>>, <<253, 141, 39>>, <<253, 138, 38>>, <<252, 135, 37>>,
      <<252, 132, 35>>, <<251, 129, 34>>, <<251, 126, 33>>, <<250, 123, 31>>, <<249, 120, 30>>,
      <<249, 117, 29>>, <<248, 114, 28>>, <<247, 111, 26>>, <<246, 108, 25>>, <<245, 105, 24>>,
      <<244, 102, 23>>, <<243, 99, 21>>, <<242, 96, 20>>, <<241, 93, 19>>, <<240, 91, 18>>,
      <<239, 88, 17>>, <<237, 85, 16>>, <<236, 83, 15>>, <<235, 80, 14>>, <<234, 78, 13>>,
      <<232, 75, 12>>, <<231, 73, 12>>, <<229, 71, 11>>, <<228, 69, 10>>, <<226, 67, 10>>,
      <<225, 65, 9>>, <<223, 63, 8>>, <<221, 61, 8>>, <<220, 59, 7>>, <<218, 57, 7>>,
      <<216, 55, 6>>, <<214, 53, 6>>, <<212, 51, 5>>, <<210, 49, 5>>, <<208, 47, 5>>,
      <<206, 45, 4>>, <<204, 43, 4>>, <<202, 42, 4>>, <<200, 40, 3>>, <<197, 38, 3>>,
      <<195, 37, 3>>, <<193, 35, 2>>, <<190, 33, 2>>, <<188, 32, 2>>, <<185, 30, 2>>,
      <<183, 29, 2>>, <<180, 27, 1>>, <<178, 26, 1>>, <<175, 24, 1>>, <<172, 23, 1>>,
      <<169, 22, 1>>, <<167, 20, 1>>, <<164, 19, 1>>, <<161, 18, 1>>, <<158, 16, 1>>,
      <<155, 15, 1>>, <<152, 14, 1>>, <<149, 13, 1>>, <<146, 11, 1>>, <<142, 10, 1>>,
      <<139, 9, 2>>, <<136, 8, 2>>, <<133, 7, 2>>, <<129, 6, 2>>, <<126, 5, 2>>,
      <<122, 4, 3>>>>
\* SRGBToLinear of Colorspace.h on a level, rounded to a level
SRGBToLinearLevels ==
    <<0, 0, 0, 0, 0, 0, 0, 1, 1, 1, 1, 1, 1, 1, 1, 1,
      1, 1, 2, 2, 2, 2, 2, 2, 2, 2, 3, 3, 3, 3, 3, 3,
      4, 4, 4, 4, 4, 5, 5, 5, 5, 6, 6, 6, 6, 7, 7, 7,
      8, 8, 8, 8, 9, 9, 9, 10, 10, 10, 11, 11, 12, 12, 12, 13,
      13, 13, 14, 14, 15, 15, 16, 16, 17, 17, 17, 18, 18, 19, 19, 20,
      20, 21, 22, 22, 23, 23, 24, 24, 25, 25, 26, 27, 27, 28, 29, 29,
      30, 30, 31, 32, 32, 33, 34, 35, 35, 36, 37, 37, 38, 39, 40, 41,
      41, 42, 43, 44, 45, 45, 46, 47, 48, 49, 50, 51, 51, 52, 53, 54,
      55, 56, 57, 58, 59, 60, 61, 62, 63, 64, 65, 66, 67, 68, 69, 70,
      71, 72, 73, 74, 76, 77, 78, 79, 80, 81, 82, 84, 85, 86, 87, 88,
      90, 91, 92, 93, 95, 96, 97, 99, 100, 101, 103, 104, 105, 107, 108, 109,
      111, 112, 114, 115, 116, 118, 119, 121, 122, 124, 125, 127, 128, 130, 131, 133,
      134, 136, 138, 139, 141, 142, 144, 146, 147, 149, 151, 152, 154, 156, 157, 159,
      161, 163, 164, 166, 168, 170, 171, 173, 175, 177, 179, 181, 183, 184, 186, 188,
      190, 192, 194, 196, 198, 200, 202, 204, 206, 208, 210, 212, 214, 216, 218, 220,
      222, 224, 226, 229, 231, 233, 235, 237, 239, 242, 244, 246, 248, 250, 253, 255>>
\* LinearToSRGB of Colorspace.h on a level, rounded to a level
LinearToSRGBLevels ==
    <<0, 13, 22, 28, 34, 38, 42, 46, 50, 53, 56, 59, 61, 64, 66, 69,
      71, 73, 75, 77, 79, 81, 83, 85, 86, 88, 90, 92, 93, 95, 96, 98,
      99, 101, 102, 104, 105, 106, 108, 109, 110, 112, 113, 114, 115, 117, 118, 119,
      120, 121, 122, 124, 125, 126, 127, 128, 129, 130, 131, 132, 133, 134, 135, 136,
      137, 138, 139, 140, 141, 142, 143, 144, 145, 146, 147, 148, 148, 149, 150, 151,
      152, 153, 154, 155, 155, 156, 157, 158, 159, 159, 160, 161, 162, 163, 163, 164,
      165, 166, 167, 167, 168, 169, 170, 170, 171, 172, 173, 173, 174, 175, 175, 176,
      177, 178, 178, 179, 180, 180, 181, 182, 182, 183, 184, 185, 185, 186, 187, 187,
      188, 189, 189, 190, 190, 191, 192, 192, 193, 194, 194, 195, 196, 196, 197, 197,
      198, 199, 199, 200, 200, 201, 202, 202, 203, 203, 204, 205, 205, 206, 206, 207,
      208, 208, 209, 209, 210, 210, 211, 212, 212, 213, 213, 214, 214, 215, 215, 216,
      216, 217, 218, 218, 219, 219, 220, 220, 221, 221, 222, 222, 223, 223, 224, 224,
      225, 226, 226, 227, 227, 228, 228, 229, 229, 230, 230, 231, 231, 232, 232, 233,
      233, 234, 234, 235, 235, 236, 236, 237, 237, 238, 238, 238, 239, 239, 240, 240,
      241, 241, 242, 242, 243, 243, 244, 244, 245, 245, 246, 246, 246, 247, 247, 248,
      248, 249, 249, 250, 250, 251, 251, 251, 252, 252, 253, 253, 254, 254, 255, 255>>

\* SRGBToLinear of Colorspace.h on a Color4: the alpha is passed through
SRGBToLinear(c) ==
    <<SRGBToLinearLevels[c[1] + 1], SRGBToLinearLevels[c[2] + 1],
      SRGBToLinearLevels[c[3] + 1], c[4]>>

Unwritten == <<>>

Pixels(w_, h_) == (0..(w_ - 1)) \X (0..(h_ - 1))

\* sample arrays of 3 and 4 channels: data[k] for the code's data[k - 1]
Seeds == {37, 101}

SampleArray(seed, len) == [k \in 1..len |-> (seed * k) % 256]

\* the samples of a 1-channel array: negative, zero and positive
GreySamples == {-1, 0, 2, 5}

\* the arrays of n channels and len pixels
CopyInputs(n, len) ==
    IF n = 1 THEN [1..len -> GreySamples]
    ELSE {SampleArray(seed, n * len) : seed \in Seeds}

\* lines 210-217: the samples of a 16-bit PNG, data16 / 1000 with what
\* exceeds 5 set to 0, one per pixel whatever the file's channel count n
Png16Inputs(len) == [1..len -> GreySamples \ {-1}]

\* the arguments load passes to copyPixelsFromArray for an image of len pixels
CopyCalls(len) ==
    \* line 218
    {[n |-> n, data |-> d, convertToLinear |-> FALSE, flip |-> TRUE] :
        n \in 1..4, d \in Png16Inputs(len)}
    \* line 229
    \cup {[n |-> 4, data |-> d, convertToLinear |-> b, flip |-> FALSE] :
        d \in CopyInputs(4, len), b \in BOOLEAN}
    \* line 259
    \cup UNION {{[n |-> n, data |-> d, convertToLinear |-> FALSE, flip |-> TRUE] :
        d \in CopyInputs(n, len)} : n \in {1, 3}}
    \* line 300
    \cup UNION {{[n |-> n, data |-> d, convertToLinear |-> FALSE, flip |-> FALSE] :
        d \in CopyInputs(n, len)} : n \in {1, 3, 4}}

\* what a load beyond the end of data may yield
StraySamples == {0, 165}

\* std::round of a / b for a >= 0 and b > 0
Round(a, b) == (2 * a + b) \div (2 * b)

\* lines 92-103: the least and the greatest positive sample, FLT_MAX and
\* -FLT_MAX standing when there is none (their difference is never used then)
PositiveSamples(data_) == {data_[k] : k \in 1..Len(data_)} \cap (1..255)

Least(set) == CHOOSE v \in set : \A u \in set : v <= u

Greatest(set) == CHOOSE v \in set : \A u \in set : u <= v

\* what the conversion of a NaN to int may index: an entry of the table, or
\* (-1) an address outside it
UndefinedIndex == {-1, 0, 255}

\* a load outside turboRGBf yields some colour
StrayColor == <<0, 0, 0>>

\* line 114: (int)std::round(255.f * (p - minVal) / delta) for a sample
\* p > 0; with delta = 0 the quotient is 0 / 0, not a number, and its
\* conversion to int is undefined: idx is what it yields
GreyIndex(p, minVal, delta, idx) ==
    IF delta > 0 THEN Round(255 * (p - minVal), delta) ELSE idx

\* lines 109-119: the Color4 stored for sample p
GreyPixel(p, minVal, delta, idx) ==
    IF p <= 0 THEN <<0, 0, 0, 0>>
    ELSE LET i == GreyIndex(p, minVal, delta, idx)
             t == IF i \in 0..255 THEN turboRGBf[i + 1] ELSE StrayColor
         IN  SRGBToLinear(<<t[3], t[2], t[1], 255>>)

\* faulty variant of ColorPixel: the test of the channel count is inverted
ColorPixel_alphaInverted(c, x, y, stray) ==
    LET at(k) == IF k < Len(c.data) THEN c.data[k + 1] ELSE stray
        px_   == x + y * c.w
        col   == <<at(c.n * px_ + 0), at(c.n * px_ + 1), at(c.n * px_ + 2),
                   IF c.n = 4 THEN 255 ELSE at(4 * px_ + 3)>>
    IN  IF c.convertToLinear THEN SRGBToLinear(col) ELSE col

\* lines 138-142: the Color4 stored for pixel (x, y) of an n-channel array;
\* stray is what a load beyond the end of data yields
ColorPixel(c, x, y, stray) ==
    LET at(k) == IF k < Len(c.data) THEN c.data[k + 1] ELSE stray
        px_   == x + y * c.w
        col   == <<at(c.n * px_ + 0), at(c.n * px_ + 1), at(c.n * px_ + 2),
                   IF c.n = 3 THEN 255 ELSE at(4 * px_ + 3)>>
    IN  IF c.convertToLinear THEN SRGBToLinear(col) ELSE col

\* lines 111, 119, 142: the row of img that receives row y of data
TargetRow(c, y) == IF c.flip THEN c.h - y - 1 ELSE y

\* lines 85-104: the channel test, and for one channel the scan for minVal
\* and maxVal
CopyEnter ==
    /\ copyCall.pc = "call"
    /\ copyCall' =
         IF CopyThrows(copyCall.n)
         THEN [copyCall EXCEPT !.pc = "threw"]
         ELSE IF copyCall.n = 1 /\ PositiveSamples(copyCall.data) /= {}
         THEN LET pos == PositiveSamples(copyCall.data)
              IN  [copyCall EXCEPT !.pc = "rows",
                                   !.minVal = Least(pos),
                                   !.delta = Greatest(pos) - Least(pos)]
         ELSE [copyCall EXCEPT !.pc = "rows"]

\* lines 105-121 and 134-144: the body of parallel_for for one row y
CopyRow ==
    /\ copyCall.pc = "rows"
    /\ \E y \in (0..(copyCall.h - 1)) \ copyCall.rows :
       \E idx \in [0..(copyCall.w - 1) -> UndefinedIndex],
          stray \in StraySamples, faults \in BOOLEAN :
         LET c == copyCall
             nan(x) == /\ c.n = 1
                       /\ c.data[x + y * c.w + 1] > 0
                       /\ c.delta = 0
             out(x) == nan(x) /\ idx[x] = -1
             short == c.n /= 1 /\ Len(c.data) < c.n * c.w * c.h
             color(x) ==
               IF c.n = 1
               THEN GreyPixel(c.data[x + y * c.w + 1], c.minVal, c.delta, idx[x])
               ELSE ColorPixel(c, x, y, stray)
             \* the samples of the row that index turboRGBf, each with its index
             looked ==
               IF c.n /= 1 THEN {}
               ELSE {<<c.data[x + y * c.w + 1],
                       GreyIndex(c.data[x + y * c.w + 1], c.minVal, c.delta, idx[x])>> :
                     x \in {x \in 0..(c.w - 1) : c.data[x + y * c.w + 1] > 0}}
         IN  /\ \A x \in 0..(c.w - 1) : ~nan(x) => idx[x] = 0
             /\ ~short => stray = 0
             /\ faults => short \/ \E x \in 0..(c.w - 1) : out(x)
             /\ copyCall' =
                  IF faults
                  THEN [c EXCEPT !.pc = "fault", !.lookups = @ \cup looked]
                  ELSE [c EXCEPT
                          !.rows = @ \cup {y},
                          !.lookups = @ \cup looked,
                          !.img = [q \in DOMAIN @ |->
                                     IF q[2] = TargetRow(c, y)
                                     THEN color(q[1]) ELSE @[q]]]

\* the end of parallel_for
CopyReturn ==
    /\ copyCall.pc = "rows"
    /\ copyCall.rows = 0..(copyCall.h - 1)
    /\ copyCall' = [copyCall EXCEPT !.pc = "done"]

besidesCopy == <<loadVars, unpackVars, saveCall, cropCall, stageRun>>

\* a call of copyPixelsFromArray on an image resized to w x h by the caller
InitCopy ==
    /\ LoadIdle
    /\ UnpackIdle
    /\ saveCall = Idle
    /\ cropCall = Idle
    /\ stageRun = Idle
    /\ \E shape \in ImageShapes :
       \E call \in CopyCalls(shape[1] * shape[2]) :
         copyCall = [pc |-> "call", w |-> shape[1], h |-> shape[2],
                     n |-> call.n, data |-> call.data,
                     convertToLinear |-> call.convertToLinear,
                     flip |-> call.flip, rows |-> {}, minVal |-> 0, delta |-> 0,
                     lookups |-> {},
                     img |-> [q \in Pixels(shape[1], shape[2]) |-> Unwritten]]

NextCopy ==
    \/ CopyEnter /\ UNCHANGED besidesCopy
    \/ CopyRow /\ UNCHANGED besidesCopy
    \/ CopyReturn /\ UNCHANGED besidesCopy

SpecCopy == InitCopy /\ [][NextCopy]_vars

(***************************************************************************)
(* HDRImage::save, lines 526-649, followed by HDRImage::load of the file   *)
(* it wrote.                                                               *)
(*                                                                         *)
(* A channel value v of an image is held as 2 * 255 * v, so that half a    *)
(* step of the 8-bit scale is visible: One stands for 1.f.  The samples of *)
(* an 8-bit file are levels 0..255.  An image is [w, h, px] with px        *)
(* mapping <<x, y>> to a Color4.                                           *)
(***************************************************************************)
One == 2 * 255

SaveTargets ==
    { <<"a",".","h","d","r">>, <<"a",".","p","f","m">>, <<"a",".","e","x","r">>,
      <<"a",".","p","p","m">>, <<"a",".","p","n","g">>, <<"a",".","b","m","p">>,
      <<"a",".","t","g","a">>, <<"a",".","j","p","g">>,
      <<"a",".","j","p","e","g">>, <<"a",".","P","N","G">>,
      <<"a",".","g","i","f">>, <<"a">> }

\* the colours of the images saved: within [0, 1], with odd values and an
\* alpha other than 1
SaveColors == {<<0, 255, 510, 510>>, <<101, 300, 37, 256>>}

SaveImages ==
    UNION {{[w |-> shape[1], h |-> shape[2], px |-> f] :
              f \in [Pixels(shape[1], shape[2]) -> SaveColors]} :
           shape \in ImageShapes}

NoImage == [w |-> 0, h |-> 0, px |-> <<>>]

Gains == {1, 2}

Gammas == {1, 2}

\* line 541
FloatExtensions == {<<"h","d","r">>, <<"p","f","m">>, <<"e","x","r">>}

\* faulty variant of Writer: an extension that matches no codec is written
\* by the last codec of the chain
Writer_fallsThrough(ext) ==
    CASE ext = <<"h","d","r">>     -> "stbi_write_hdr"
      [] ext = <<"p","f","m">>     -> "writePFMImage"
      [] ext = <<"e","x","r">>     -> "Imf::RgbaOutputFile"
      [] ext = <<"p","p","m">>     -> "writePPMImage"
      [] ext = <<"p","n","g">>     -> "stbi_write_png"
      [] ext = <<"b","m","p">>     -> "stbi_write_bmp"
      [] ext = <<"t","g","a">>     -> "stbi_write_tga"
      [] OTHER                     -> "stbi_write_jpg"

\* lines 565-569 and 632-644: the write codec save calls for an extension
Writer(ext) ==
    CASE ext = <<"h","d","r">>     -> "stbi_write_hdr"
      [] ext = <<"p","f","m">>     -> "writePFMImage"
      [] ext = <<"e","x","r">>     -> "Imf::RgbaOutputFile"
      [] ext = <<"p","p","m">>     -> "writePPMImage"
      [] ext = <<"p","n","g">>     -> "stbi_write_png"
      [] ext = <<"b","m","p">>     -> "stbi_write_bmp"
      [] ext = <<"t","g","a">>     -> "stbi_write_tga"
      [] ext = <<"j","p","g">>     -> "stbi_write_jpg"
      [] ext = <<"j","p","e","g">> -> "stbi_write_jpg"
      [] OTHER                     -> "none"

\* the integer part of the square root
ISqrt(v) == CHOOSE r \in 0..(v + 1) : r * r <= v /\ v < (r + 1) * (r + 1)

\* imgCopy.pow(gammaC) on one channel, for the exponents 1 / gamma
PowChannel(v, gamma) == IF gamma = 2 THEN ISqrt(One * v) ELSE v

\* LinearToSRGB of Colorspace.h on one channel, at the resolution of the
\* table; above 1 the curve stays above 1
EncodeChannel(v) ==
    IF v <= One THEN 2 * LinearToSRGBLevels[(v \div 2) + 1] ELSE v

\* lines 559 and 561: the alpha is passed through
LinearToSRGB(c) == <<EncodeChannel(c[1]), EncodeChannel(c[2]), EncodeChannel(c[3]), c[4]>>

PowColor(c, gamma) ==
    <<PowChannel(c[1], gamma), PowChannel(c[2], gamma), PowChannel(c[3], gamma), c[4]>>

\* line 553: gainC = Color4(gain, gain, gain, 1.0f)
GainColor(c, gain) == <<gain * c[1], gain * c[2], gain * c[3], c[4]>>


\* what the float codecs keep of a Color4: Radiance and PFM files hold
\* three channels, an OpenEXR RGBA file four
FloatSamples(writer, c) ==
    IF writer = "Imf::RgbaOutputFile" THEN c ELSE <<c[1], c[2], c[3]>>

\* the row of the file that holds row y of the image: a PFM file is
\* written bottom row first
FileRow(writer, h_, y) == IF writer = "writePFMImage" THEN h_ - 1 - y ELSE y

\* faulty variant of LoadRow: flip is false at every call
LoadRow_neverFlips(format, h_, y) == y

\* the row of the file that load stores as row y: flip is true at line 259
\* and false at line 229, and the EXR rows are copied in place (line 347)
LoadRow(format, h_, y) == IF format = "writePFMImage" THEN h_ - y - 1 ELSE y

\* faulty variant of Curves: the target format is not looked at
Curves_ignoresFormat(hdrFormat, sRGB, gamma) ==
    IF sRGB THEN {"sRGB"} ELSE IF gamma /= 1 THEN {"gamma"} ELSE {}

\* lines 556-562: the transfer curves applied to imgCopy
Curves(hdrFormat, sRGB, gamma) ==
    IF hdrFormat THEN {}
    ELSE IF sRGB THEN {"sRGB"}
    ELSE IF gamma /= 1 THEN {"gamma"}
    ELSE {}

\* lines 552-561 on one Color4
Tone(c, gain, curves, gamma) ==
    LET gained  == IF gain /= 1 THEN GainColor(c, gain) ELSE c
        encoded == IF "sRGB" \in curves THEN LinearToSRGB(gained) ELSE gained
    IN  IF "gamma" \in curves THEN PowColor(encoded, gamma) ELSE encoded

ToneImage(im, gain, curves, gamma) ==
    [im EXCEPT !.px = [q \in DOMAIN @ |-> Tone(@[q], gain, curves, gamma)]]

\* faulty variant of Tonemap: the adjustment is made on the image itself
Tonemap_inPlace(sv) ==
    IF sv.gain /= 1 \/ sv.sRGB \/ sv.gamma /= 1
    THEN LET curves == Curves(sv.hdrFormat, sv.sRGB, sv.gamma)
         IN  [sv EXCEPT !.this = ToneImage(sv.this, sv.gain, curves, sv.gamma),
                        !.curves = curves]
    ELSE sv

\* lines 544-563: img = &imgCopy and the adjustment of imgCopy
Tonemap(sv) ==
    IF sv.gain /= 1 \/ sv.sRGB \/ sv.gamma /= 1
    THEN LET curves == Curves(sv.hdrFormat, sv.sRGB, sv.gamma)
         IN  [sv EXCEPT !.imgCopy = ToneImage(sv.this, sv.gain, curves, sv.gamma),
                        !.img = "imgCopy",
                        !.curves = curves]
    ELSE sv

\* auto img = this, or &imgCopy
Img(sv) == IF sv.img = "imgCopy" THEN sv.imgCopy ELSE sv.this

NoFile == [format |-> "none", w |-> 0, h |-> 0, n |-> 0, samples |-> <<>>]

\* lines 618-629: the dither offset, c * 255 clamped to [0, 255] and the
\* conversion to unsigned char
QuantizeChannel(v, ditherValue) == clamp(v + ditherValue, 0, One) \div 2

\* the integer parts of (dither_matrix256[...] / 65536.0f - 0.5f) / 255.0f
DitherValues == {-1, 0}

\* the error of a JPEG sample, in levels
JpegErrors == {-1, 0, 1}

\* lines 531-541
SaveEnter ==
    /\ saveCall.pc = "call"
    /\ saveCall' = [saveCall EXCEPT
                      !.pc = "tonemap",
                      !.extension = extension(saveCall.filename),
                      !.hdrFormat = extension(saveCall.filename) \in FloatExtensions]

\* lines 544-563
SaveTonemap ==
    /\ saveCall.pc = "tonemap"
    /\ saveCall' = [Tonemap(saveCall) EXCEPT !.pc = "encode"]

\* lines 565-604: the float codecs; a codec may fail (an exception of the
\* EXR library is caught and turned into false)
SaveFloat ==
    /\ saveCall.pc = "encode"
    /\ saveCall.hdrFormat
    /\ \E ok \in BOOLEAN :
         LET sv     == saveCall
             writer == Writer(sv.extension)
             im     == Img(sv)
         IN  saveCall' = [sv EXCEPT
               !.pc = "returned",
               !.codecs = Append(@, writer),
               !.ret = IF ok THEN "true" ELSE "false",
               !.file = IF ok
                        THEN [format |-> writer, w |-> sv.this.w, h |-> sv.this.h,
                              n |-> IF writer = "Imf::RgbaOutputFile" THEN 4 ELSE 3,
                              samples |-> [q \in DOMAIN im.px |->
                                 FloatSamples(writer,
                                   im.px[<<q[1], FileRow(writer, im.h, q[2])>>])]]
                        ELSE NoFile]

\* lines 605-630: the 8-bit samples
SaveQuantize ==
    /\ saveCall.pc = "encode"
    /\ ~saveCall.hdrFormat
    /\ \E ditherValue \in [DOMAIN saveCall.this.px -> DitherValues] :
         LET sv == saveCall
             im == Img(sv)
         IN  /\ ~sv.dither => \A q \in DOMAIN ditherValue : ditherValue[q] = 0
             /\ saveCall' = [sv EXCEPT
                  !.pc = "write",
                  !.data = [q \in DOMAIN im.px |->
                              <<QuantizeChannel(im.px[q][1], ditherValue[q]),
                                QuantizeChannel(im.px[q][2], ditherValue[q]),
                                QuantizeChannel(im.px[q][3], ditherValue[q])>>]]

\* lines 632-647: the 8-bit codecs, and the throw for every other extension
SaveWrite ==
    /\ saveCall.pc = "write"
    /\ \E ok \in BOOLEAN, err \in JpegErrors :
         LET sv     == saveCall
             writer == Writer(sv.extension)
             stored(v) == IF writer = "stbi_write_jpg"
                          THEN clamp(v + err, 0, 255) ELSE v
         IN  /\ writer /= "stbi_write_jpg" => err = 0
             /\ writer = "none" => ~ok
             /\ saveCall' =
                  IF writer = "none"
                  THEN [sv EXCEPT !.pc = "returned", !.ret = "threw"]
                  ELSE [sv EXCEPT
                          !.pc = "returned",
                          !.codecs = Append(@, writer),
                          !.ret = IF ok THEN "true" ELSE "false",
                          !.file = IF ok
                                   THEN [format |-> writer, w |-> sv.this.w,
                                         h |-> sv.this.h, n |-> 3,
                                         samples |-> [q \in DOMAIN sv.data |->
                                            <<stored(sv.data[q][1]),
                                              stored(sv.data[q][2]),
                                              stored(sv.data[q][3])>>]]
                                   ELSE NoFile]

\* faulty variant of Load8: the samples are stored as they are
Load8_notConverted(rgb) == <<2 * rgb[1], 2 * rgb[2], 2 * rgb[3], 2 * 255>>

\* lines 199-229 and 142, load of an 8-bit file: stbi_loadf returns
\* sample / 255 and alpha 1, copyPixelsFromArray(..., 4, true, false)
\* converts each pixel
Load8(rgb) ==
    LET c == SRGBToLinear(<<rgb[1], rgb[2], rgb[3], 255>>)
    IN  <<2 * c[1], 2 * c[2], 2 * c[3], 2 * c[4]>>

\* load of a float file: lines 229 (Radiance, 4 channels from stbi_loadf
\* with alpha 1, not converted), 259 and 142 (PFM, 3 channels, alpha 1.f),
\* 343-350 (EXR, the four channels of the file)
LoadFloat(stored) ==
    IF Len(stored) = 4 THEN stored
    ELSE <<stored[1], stored[2], stored[3], One>>

\* HDRImage::load of the file save wrote
LoadBack ==
    /\ saveCall.pc = "returned"
    /\ saveCall.ret = "true"
    /\ LET f == saveCall.file
       IN  saveCall' = [saveCall EXCEPT
             !.pc = "loaded",
             !.loaded = [w |-> f.w, h |-> f.h,
                         px |-> [q \in DOMAIN f.samples |->
                                   LET at == <<q[1], LoadRow(f.format, f.h, q[2])>>
                                   IN  IF saveCall.hdrFormat
                                       THEN LoadFloat(f.samples[at])
                                       ELSE Load8(f.samples[at])]]]

besidesSave == <<loadVars, unpackVars, copyCall, cropCall, stageRun>>

InitSave ==
    /\ LoadIdle
    /\ UnpackIdle
    /\ copyCall = Idle
    /\ cropCall = Idle
    /\ stageRun = Idle
    /\ \E im \in SaveImages, target \in SaveTargets, gain \in Gains,
          gamma \in Gammas, sRGB \in BOOLEAN, dither \in BOOLEAN :
         saveCall = [pc |-> "call", filename |-> target, gain |-> gain,
                     gamma |-> gamma, sRGB |-> sRGB, dither |-> dither,
                     this |-> im, before |-> im, extension |-> <<>>,
                     hdrFormat |-> FALSE, img |-> "this", imgCopy |-> NoImage,
                     curves |-> {}, data |-> <<>>, codecs |-> <<>>,
                     file |-> NoFile, ret |-> "none", loaded |-> NoImage]

NextSave ==
    \/ SaveEnter /\ UNCHANGED besidesSave
    \/ SaveTonemap /\ UNCHANGED besidesSave
    \/ SaveFloat /\ UNCHANGED besidesSave
    \/ SaveQuantize /\ UNCHANGED besidesSave
    \/ SaveWrite /\ UNCHANGED besidesSave
    \/ LoadBack /\ UNCHANGED besidesSave

SpecSave == InitSave /\ [][NextSave]_vars

(***************************************************************************)
(* The crop and the orientation of the raw path, lines 467-501, on the     *)
(* pixels.  The developed image holds at <<x, y>> the pixel named <<x, y>>.*)
(***************************************************************************)
\* the image develop or the replicate path left in *this
Developed(w_, h_) == [w |-> w_, h |-> h_, px |-> [q \in Pixels(w_, h_) |-> q]]

\* block(startRow, startCol, blockRows, blockCols) of HDRImage: rows run
\* along x, columns along y
block(im, x0, y0, nw, nh) ==
    [w |-> nw, h |-> nh, px |-> [q \in Pixels(nw, nh) |-> im.px[<<x0 + q[1], y0 + q[2]>>]]]

flippedVertical(im) ==
    [im EXCEPT !.px = [q \in DOMAIN @ |-> @[<<q[1], im.h - 1 - q[2]>>]]]

flippedHorizontal(im) ==
    [im EXCEPT !.px = [q \in DOMAIN @ |-> @[<<im.w - 1 - q[1], q[2]>>]]]

rotated90CW(im) ==
    [w |-> im.h, h |-> im.w,
     px |-> [q \in Pixels(im.h, im.w) |-> im.px[<<q[2], im.h - 1 - q[1]>>]]]

rotated90CCW(im) ==
    [w |-> im.h, h |-> im.w,
     px |-> [q \in Pixels(im.h, im.w) |-> im.px[<<im.w - 1 - q[2], q[1]>>]]]

\* one call of lines 491-497
Transform(op, im) ==
    CASE op = "flippedHorizontal" -> flippedHorizontal(im)
      [] op = "flippedVertical"   -> flippedVertical(im)
      [] op = "rotated90CW"       -> rotated90CW(im)
      [] op = "rotated90CCW"      -> rotated90CCW(im)

NoRect == [x0 |-> 0, x1 |-> 0, y0 |-> 0, y1 |-> 0]

\* lines 467-470
CropRect ==
    /\ cropCall.pc = "crop"
    /\ LET c == cropCall
       IN  cropCall' = [c EXCEPT
             !.pc = "block",
             !.rect = [x0 |-> clamp(c.active_area[2], 0, c.w),
                       x1 |-> clamp(c.active_area[4], 0, c.w),
                       y0 |-> clamp(c.active_area[1], 0, c.h),
                       y1 |-> clamp(c.active_area[3], 0, c.h)]]

\* lines 472-474.  A block of negative extent is undefined in Eigen: the
\* allocation throws and the handler of lines 503-509 empties the image, or
\* load goes on with the extents it computed and no defined pixel.
CropBlock ==
    /\ cropCall.pc = "block"
    /\ \E ub \in {"throws", "goes on"} :
         LET c  == cropCall
             nw == c.rect.x1 - c.rect.x0
             nh == c.rect.y1 - c.rect.y0
             cut == block(c.this, c.rect.x0, c.rect.y0, nw, nh)
         IN  /\ nw >= 0 /\ nh >= 0 => ub = "goes on"
             /\ cropCall' =
                  IF ub = "throws"
                  THEN [c EXCEPT !.pc = "done", !.ret = "false",
                                 !.this = NoImage,
                                 !.calls = Append(@, "block")]
                  ELSE [c EXCEPT !.pc = "orient",
                                 !.this = cut,
                                 !.cropped = cut,
                                 !.calls = Append(@, "block"),
                                 !.todo = OrientOps(c.orientation)]

\* lines 489-499: one call of the selected case
CropTransform ==
    /\ cropCall.pc = "orient"
    /\ cropCall.todo /= <<>>
    /\ cropCall' = [cropCall EXCEPT
                      !.this = Transform(Head(cropCall.todo), @),
                      !.calls = Append(@, Head(cropCall.todo)),
                      !.todo = Tail(@)]

\* line 501
CropReturn ==
    /\ cropCall.pc = "orient"
    /\ cropCall.todo = <<>>
    /\ cropCall' = [cropCall EXCEPT !.pc = "done", !.ret = "true"]

besidesCrop == <<loadVars, unpackVars, copyCall, saveCall, stageRun>>

InitCrop ==
    /\ LoadIdle
    /\ UnpackIdle
    /\ copyCall = Idle
    /\ saveCall = Idle
    /\ stageRun = Idle
    /\ \E dim \in Dims, area \in [1..4 -> AreaVals], o \in OrientationCodes :
         cropCall = [pc |-> "crop", w |-> dim[1], h |-> dim[2],
                     active_area |-> area, orientation |-> o,
                     this |-> Developed(dim[1], dim[2]),
                     rect |-> NoRect, cropped |-> NoImage,
                     calls |-> <<>>, todo |-> <<>>, ret |-> "none"]

NextCrop ==
    \/ CropRect /\ UNCHANGED besidesCrop
    \/ CropBlock /\ UNCHANGED besidesCrop
    \/ CropTransform /\ UNCHANGED besidesCrop
    \/ CropReturn /\ UNCHANGED besidesCrop

SpecCrop == InitCrop /\ [][NextCrop]_vars

(***************************************************************************)
(* The row-parallel loops: parallel_for(0, height, body) runs body(y) for  *)
(* every row y on a pool of workers and returns when all have ended.  A    *)
(* step runs the body of one row for one x; the rows interleave freely.    *)
(* A memory cell is <<array, index>>; pixel (x, y) of an image of width w  *)
(* is cell x + y * w of its array.  The arithmetic of a body is kept only  *)
(* as far as it tells which cells the result depends on.                   *)
(***************************************************************************)
Arrays == {"data", "raw", "developed", "img", "out"}

\* the loops load runs for a raw file, for a copied array, and the loop of save
Pipelines ==
    { <<"unpack", "normalise", "demosaic", "colour">>,
      <<"copy">>,
      <<"quantise">> }

Cells(r) == Arrays \X (0..(3 * r.w * r.h - 1))

At(r, x, y) == x + y * r.w

\* faulty variant of QuantIndex: the row is left out
QuantIndex_noRow(x, y, width_, k) == 3 * x + k

\* lines 627-629: data[3 * x + 3 * y * width() + k]
QuantIndex(x, y, width_, k) == 3 * x + 3 * y * width_ + k

\* the cells the body of a loop reads for pixel (x, y)
ReadSet(stage, r, x, y) ==
    CASE stage = "unpack"    -> {<<"data", y * r.w + x>>}
      [] stage = "normalise" -> {<<"raw", y * r.w + x>>}
      [] stage = "colour"    -> {<<"developed", At(r, x, y)>>}
      [] stage = "copy"      -> {<<"data", 3 * (x + y * r.w) + k>> : k \in 0..2}
      [] stage = "quantise"  -> {<<"img", At(r, x, y)>>}

\* the cells it writes
WriteSet(stage, r, x, y) ==
    CASE stage = "unpack"    -> {<<"raw", y * r.w + x>>}
      [] stage = "normalise" -> {<<"developed", At(r, x, y)>>}
      [] stage = "colour"    -> {<<"developed", At(r, x, y)>>}
      [] stage = "copy"      -> {<<"img", At(r, x, IF r.flip THEN r.h - y - 1 ELSE y)>>}
      [] stage = "quantise"  -> {<<"out", QuantIndex(x, y, r.w, k)>> : k \in 0..2}

\* the value it writes to cell
Written(stage, r, x, y, mem, cell) ==
    CASE stage = "unpack"    -> mem[<<"data", y * r.w + x>>]
      [] stage = "normalise" -> mem[<<"raw", y * r.w + x>>] + 1
      [] stage = "colour"    -> 2 * mem[<<"developed", At(r, x, y)>>]
      [] stage = "copy"      -> mem[<<"data", 3 * (x + y * r.w)>>]
                                + mem[<<"data", 3 * (x + y * r.w) + 1>>]
                                + mem[<<"data", 3 * (x + y * r.w) + 2>>]
      [] stage = "quantise"  -> mem[<<"img", At(r, x, y)>>] + cell[2]

\* the memory after the body of stage has run for pixel (x, y)
PixelDone(stage, r, x, y, mem) ==
    [cell \in DOMAIN mem |->
       IF cell \in WriteSet(stage, r, x, y)
       THEN Written(stage, r, x, y, mem, cell) ELSE mem[cell]]

\* demosaicAHD, called between the loops of develop: every pixel of the
\* result depends on pixels of other rows
Demosaiced(r, mem) ==
    [cell \in DOMAIN mem |->
       IF cell[1] = "developed" /\ cell[2] < r.w * r.h
       THEN mem[cell] + mem[<<"developed", (cell[2] + r.w) % (r.w * r.h)>>]
       ELSE mem[cell]]

\* the accesses of the running loop that conflict with an access of unit y
Conflicts(r, y, rd, wr) ==
    {t \in r.touched :
        /\ t[2] /= y
        /\ \/ t[1] \in wr
           \/ t[1] \in rd /\ t[3] = "w"}

\* every unit of the running loop has ended: parallel_for returns
Joined(r) == \A y \in 0..(r.h - 1) : r.progress[r.stage][y] = r.w

\* the body of the running loop for the next x of some row y
UnitStep ==
    /\ stageRun.pc = "run"
    /\ stageRun.pipeline[stageRun.stage] /= "demosaic"
    /\ \E y \in 0..(stageRun.h - 1) :
         LET r      == stageRun
             stage  == r.pipeline[r.stage]
             x      == r.progress[r.stage][y]
             rd  == ReadSet(stage, r, x, y)
             wr == WriteSet(stage, r, x, y)
         IN  /\ x < r.w
             /\ stageRun' = [r EXCEPT
                  !.progress[r.stage][y] = x + 1,
                  !.mem = PixelDone(stage, r, x, y, r.mem),
                  !.touched = @ \cup {<<cell, y, "r">> : cell \in rd}
                                \cup {<<cell, y, "w">> : cell \in wr},
                  !.race = @ \/ Conflicts(r, y, rd, wr) /= {}]

\* line 762: the calling thread runs demosaicAHD
Demosaic ==
    /\ stageRun.pc = "run"
    /\ stageRun.pipeline[stageRun.stage] = "demosaic"
    /\ ~Joined(stageRun)
    /\ stageRun' = [stageRun EXCEPT
                      !.progress[stageRun.stage] = [y \in DOMAIN @ |-> stageRun.w],
                      !.mem = Demosaiced(stageRun, @)]

\* parallel_for has returned and the next loop starts
Join ==
    /\ stageRun.pc = "run"
    /\ Joined(stageRun)
    /\ stageRun.stage < Len(stageRun.pipeline)
    /\ stageRun' = [stageRun EXCEPT !.stage = @ + 1, !.touched = {}]

\* the last loop has returned
Finish ==
    /\ stageRun.pc = "run"
    /\ Joined(stageRun)
    /\ stageRun.stage = Len(stageRun.pipeline)
    /\ stageRun' = [stageRun EXCEPT !.pc = "done"]

\* the arrays before the first loop: the input arrays hold distinct values
InitialMemory(w_, h_) ==
    [cell \in Arrays \X (0..(3 * w_ * h_ - 1)) |->
       IF cell[1] \in {"data", "img"} THEN 10 * (cell[2] + 1) ELSE 0]

besidesStages == <<loadVars, unpackVars, copyCall, saveCall, cropCall>>

InitStages ==
    /\ LoadIdle
    /\ UnpackIdle
    /\ copyCall = Idle
    /\ saveCall = Idle
    /\ cropCall = Idle
    /\ \E dim \in Dims, pipeline \in Pipelines, flip \in BOOLEAN :
         /\ pipeline /= <<"copy">> => ~flip
         /\ stageRun = [pc |-> "run", pipeline |-> pipeline, w |-> dim[1],
                        h |-> dim[2], flip |-> flip, stage |-> 1,
                        progress |-> [i \in 1..Len(pipeline) |->
                                        [y \in 0..(dim[2] - 1) |-> 0]],
                        mem |-> InitialMemory(dim[1], dim[2]),
                        touched |-> {}, race |-> FALSE]

NextStages ==
    \/ UnitStep /\ UNCHANGED besidesStages
    \/ Demosaic /\ UNCHANGED besidesStages
    \/ Join /\ UNCHANGED besidesStages
    \/ Finish /\ UNCHANGED besidesStages

SpecStages == InitStages /\ [][NextStages]_vars

(***************************************************************************)
(* Vocabulary of the properties of load.                                   *)
(***************************************************************************)
Range(seq) == {seq[i] : i \in 1..Len(seq)}

CalledOps(fmt) == {c[2] : c \in {x \in Range(calls) : x[1] = fmt}}

Attempted(fmt) == CalledOps(fmt) /= {}

ProbeOps == {"isSTBImage", "isPFMImage", "suffix .npy", "isOpenExrFile"}

\* the probe of fmt ran and matched
Matched(fmt) == \E c \in Range(calls) : c[1] = fmt /\ c[2] \in ProbeOps /\ c[3]

\* a decoder of fmt (not only its probe) ran
Decoded(fmt) == CalledOps(fmt) \ ProbeOps /= {}

UnpackOps == {"decode12BitToFloat", "decode14BitToFloat", "decode16BitToFloat"}

DevelopOps == {"develop: normalize, white balance", "demosaicAHD",
               "develop: color correction", "normalize",
               "normalize and replicate", "block"}

\* the name ends in ".dng" in any mix of upper and lower case
IsDngName(s) ==
    /\ Len(s) >= 4
    /\ s[Len(s) - 3] = "."
    /\ s[Len(s) - 2] \in {"d", "D"}
    /\ s[Len(s) - 1] \in {"n", "N"}
    /\ s[Len(s)] \in {"g", "G"}

(***************************************************************************)
(* C1.  load tries the decoders in the order stb, PFM, NPY, EXR, DNG: the  *)
(* formats of the calls made never go back in that order, a decoder runs   *)
(* only after its own probe matched, and once load has returned true no    *)
(* probe or decoder is invoked any more; the calls made then end with the  *)
(* winning decoder's.                                                      *)
(***************************************************************************)
C1_OrderedCalls ==
    /\ \A i, j \in 1..Len(calls) :
         i < j => Rank(calls[i][1]) <= Rank(calls[j][1])
    /\ \A fmt \in {"stb", "pfm", "npy", "exr"} : Decoded(fmt) => Matched(fmt)
    /\ ret = "true" =>
         /\ winner /= "none"
         /\ calls[Len(calls)][1] = winner
         /\ pc = "done"

C1_FirstSuccessWins ==
    /\ []C1_OrderedCalls
    /\ [][ret = "true" => calls' = calls]_vars

\* a later format won after an earlier one had matched and failed
C1_Witness ==
    /\ ret = "true"
    /\ winner = "exr"
    /\ Matched("stb")
    /\ Matched("npy")
    /\ ~Attempted("dng")

(***************************************************************************)
(* C2.  A failed decode of stb, PFM, NPY or EXR is recorded in `errors`    *)
(* and does not end the cascade: when load is done, every format after the *)
(* failed one has been attempted unless a format before it won, and load   *)
(* returns false only after all five formats were attempted, each matched  *)
(* one having been decoded.                                                *)
(***************************************************************************)
C2_FailureIsolated ==
    /\ \A i \in 1..Len(raised) :
         LET f == raised[i][1]
         IN  f /= "dng" =>
               /\ raised[i][2] \in Range(errors)
               /\ pc = "done" =>
                    \A g \in Range(Formats) :
                      Rank(g) > Rank(f) =>
                        \/ Attempted(g)
                        \/ winner /= "none" /\ Rank(winner) < Rank(g)
    /\ ret = "false" =>
         /\ \A g \in Range(Formats) : Attempted(g)
         /\ \A g \in {"stb", "pfm", "npy", "exr"} : Matched(g) => Decoded(g)

\* stb matched and failed, and PFM and EXR were still decoded
C2_Witness ==
    /\ pc = "done"
    /\ <<"stb", MsgStb>> \in Range(raised)
    /\ Decoded("pfm")
    /\ winner = "exr"

(***************************************************************************)
(* C3.  When no decoder succeeds, load returns false with the image 0 x 0, *)
(* and no exception ever leaves load.                                      *)
(***************************************************************************)
C3_FailureLeavesEmpty ==
    /\ ret /= "threw"
    /\ pc = "done" /\ winner = "none" =>
         /\ ret = "false"
         /\ imgW = 0
         /\ imgH = 0

\* no signature matched and LoadDNG failed
C3_Witness ==
    /\ ret = "false"
    /\ imgW = 0
    /\ imgH = 0
    /\ \A g \in {"stb", "pfm", "npy", "exr"} : ~Matched(g)
    /\ raised = <<<<"dng", MsgDngLoad>>>>

(***************************************************************************)
(* C4 as stated: when load fails, the diagnostic holds the message of      *)
(* every decoder that was attempted and failed, the DNG decoder's too,     *)
(* whatever the extension.                                                 *)
(***************************************************************************)
C4_AllMessagesSurfaced ==
    ret = "false" => \A i \in 1..Len(raised) : raised[i][2] \in Range(diag)

(***************************************************************************)
(* C4 as amended: when load fails, the diagnostic is, in order, the        *)
(* messages of the failed stb, PFM, NPY and EXR decoders, followed by the  *)
(* DNG decoder's message exactly when the file name ends in ".dng" (in any *)
(* case).                                                                  *)
(***************************************************************************)
C4_MessagesSurfacedDngByExtension ==
    ret = "false" =>
      LET kept == SelectSeq(raised,
                    LAMBDA r : r[1] /= "dng" \/ IsDngName(filename))
      IN  /\ diag = [i \in 1..Len(kept) |-> kept[i][2]]
          /\ \E i \in 1..Len(raised) : raised[i][1] = "dng"

\* an upper-case .DNG name: the stb and the DNG message are both surfaced
C4_Witness ==
    /\ ret = "false"
    /\ IsDngName(filename)
    /\ diag = <<MsgStb, MsgDngLoad>>

(***************************************************************************)
(* C5.  Whenever load returns true, the image was resized to the decoded   *)
(* size and its pixels were written from the decoded samples in that call. *)
(***************************************************************************)
C5_TrueMeansPopulated ==
    ret = "true" => sized /\ written

(***************************************************************************)
(* C9.  A raw image whose bits_per_sample is not 12, 14 or 16 fails with   *)
(* the unsupported-bit-depth error before any unpacking or development     *)
(* step; the handler empties the image and load returns false.             *)
(***************************************************************************)
C9_UnsupportedBitDepth ==
    meta.bits \notin {0, 12, 14, 16} =>
      /\ <<"dng", MsgDngBits>> \in Range(raised)
      /\ CalledOps("dng") \cap (UnpackOps \cup DevelopOps) = {}
      /\ imgW = 0
      /\ imgH = 0
      /\ pc \in {"report", "done"}
      /\ pc = "done" => ret = "false"

C9_Witness ==
    /\ meta.bits = 8
    /\ ret = "false"
    /\ raised = <<<<"dng", MsgDngBits>>>>

(***************************************************************************)
(* C10 as stated: an unpacked raw image with samples-per-pixel other than  *)
(* 1 goes through the normalize-and-replicate path and not through         *)
(* demosaic; demosaic runs only when samples-per-pixel is 1.               *)
(***************************************************************************)
Unpacked == CalledOps("dng") \cap UnpackOps /= {}

C10_NotOneIsReplicated ==
    /\ Unpacked /\ pc /= "dng_develop" /\ meta.spp /= 1 =>
         /\ "normalize and replicate" \in CalledOps("dng")
         /\ "demosaicAHD" \notin CalledOps("dng")
    /\ "demosaicAHD" \in CalledOps("dng") => meta.spp = 1

(***************************************************************************)
(* C10 as amended: with 3 samples per pixel load skips demosaic and builds *)
(* the w x h image through the normalize-and-replicate path; with a count  *)
(* other than 1 and 3 the raw decode fails with the unsupported-samples-   *)
(* per-pixel error, no image is built and load returns false; demosaic     *)
(* runs only when samples-per-pixel is 1.                                  *)
(***************************************************************************)
C10_ThreeIsReplicated ==
    /\ Unpacked /\ pc /= "dng_develop" /\ meta.spp = 3 =>
         /\ "normalize and replicate" \in CalledOps("dng")
         /\ "demosaicAHD" \notin CalledOps("dng")
         /\ sized /\ written
    /\ Unpacked /\ pc /= "dng_develop" /\ meta.spp \notin {1, 3} =>
         /\ <<"dng", MsgDngSpp>> \in Range(raised)
         /\ CalledOps("dng") \cap DevelopOps = {}
         /\ imgW = 0 /\ imgH = 0
         /\ pc = "done" => ret = "false"
    /\ "demosaicAHD" \in CalledOps("dng") => meta.spp = 1

C10_Witness ==
    /\ ret = "true"
    /\ meta.spp = 3
    /\ "normalize and replicate" \in CalledOps("dng")
    /\ imgW = MaxDim

(***************************************************************************)
(* Vocabulary of the properties of the unpackers.                          *)
(***************************************************************************)
\* the specification's 12-bit test buffer [0xBC, 0x2A, 0x13]
TestVector12 == <<188, 42, 19>>

\* the buffer with the bytes 2k and 2k+1 exchanged; a last byte without a
\* partner stays
PairExchanged(buf) ==
    [b \in 1..Len(buf) |->
       LET partner == IF b % 2 = 1 THEN b + 1 ELSE b - 1
       IN  IF partner <= Len(buf) THEN buf[partner] ELSE buf[b]]

\* sample n of buf as the unpacker of that depth computes it with
\* swapEndian = false; the bytes it loads past buf do not enter the value
SampleNoSwap(buf, bits, n) ==
    LET at(a) == IF a < Len(buf) THEN buf[a + 1] ELSE 0
        bytes(addrs) == [k \in 1..Len(addrs) |-> at(addrs[k])]
    IN  CASE bits = 12 ->
               Value12(bytes(Loads12((n \div 2) * 3, 0, FALSE)), n % 2)
          [] bits = 14 ->
               Value14(bytes(Loads14((n \div 4) * 7, 0, FALSE)), n % 4)
          [] bits = 16 ->
               Value16(bytes(Loads16(n)), FALSE)

(***************************************************************************)
(* C6 as stated: decode12BitToFloat without swap decodes the 3-byte buffer *)
(* [0xBC, 0x2A, 0x13] with 2 samples to [0xABC, 0x123].                    *)
(***************************************************************************)
C6_TestVectorLittleEndianStyle ==
    (/\ upc = "done"
     /\ depth = 12
     /\ ~swapEndian
     /\ width * height = 2
     /\ data = TestVector12) => image = <<2748, 291>>

(***************************************************************************)
(* C6 as amended: decode12BitToFloat without swap decodes the 3-byte       *)
(* buffer [0xBC, 0x2A, 0x13] with 2 samples to [0xBC2, 0xA13].             *)
(***************************************************************************)
C6_TestVectorMsbFirst ==
    (/\ upc = "done"
     /\ depth = 12
     /\ ~swapEndian
     /\ width * height = 2
     /\ data = TestVector12) => image = <<3010, 2579>>

C6_Witness ==
    /\ upc = "done"
    /\ depth = 12
    /\ ~swapEndian
    /\ width * height = 2
    /\ data = TestVector12
    /\ image = <<3010, 2579>>
    /\ reads = {0, 1, 2}

(***************************************************************************)
(* C7.  Without swap, what an unpacker returns for the packed form of a    *)
(* sample array (16-bit: the integers themselves; 12- and 14-bit: the      *)
(* samples one after the other, most significant bit first) is the sample  *)
(* array, every element within the range of the depth.                     *)
(***************************************************************************)
C7_UnpackInvertsPack ==
    ~swapEndian /\ upc = "done" =>
      /\ image = samples
      /\ \A i \in 1..Len(image) : image[i] \in 0..(Pow2(depth) - 1)

\* a whole 14-bit group of four samples came back
C7_Witness ==
    /\ upc = "done"
    /\ ~swapEndian
    /\ depth = 14
    /\ samples = <<10940, 5443, 16383, 10940>>
    /\ image = samples

(***************************************************************************)
(* C8.  For each depth, every buffer and every sample index, the unpacker  *)
(* with swapEndian = true returns the sample that the unpacker with        *)
(* swapEndian = false returns for the buffer with every adjacent byte pair *)
(* exchanged.                                                              *)
(***************************************************************************)
C8_SwapIsPairExchange ==
    swapEndian /\ upc = "done" =>
      \A i \in 1..(width * height) :
        image[i] = SampleNoSwap(PairExchanged(data), depth, i - 1)

(***************************************************************************)
(* C11.  The pixels load stores from a decoded low-dynamic-range file went *)
(* through SRGBToLinear, and the pixels it stores from a Radiance HDR,     *)
(* PFM, EXR or NPY source did not, whatever the channel count (1, 3, 4).   *)
(* (Raw sensor data is outside the sentence: it is developed, not copied.) *)
(***************************************************************************)
C11_LinearSourcesNotConverted ==
    ret = "true" /\ written =>
      /\ ingest.source = "ldr" => ingest.converted
      /\ ingest.source \in {"hdr", "pfm", "exr", "npy"} => ~ingest.converted

(***************************************************************************)
(* Properties of copyPixelsFromArray.                                      *)
(***************************************************************************)
\* the array holds n samples for each of the w * h pixels
WholeArray(c) == Len(c.data) = c.n * c.w * c.h

\* sample k of the pixel of data that lies at column x of row y
SourceSample(c, x, y, k) == c.data[c.n * (x + y * c.w) + k + 1]

\* C12: after the copy of a 3-channel array every pixel of the image has
\* alpha 1 and the three samples of its source pixel as R, G, B; after the
\* copy of a 4-channel array every pixel has the alpha of its source pixel;
\* a call with a channel count other than 1, 3 and 4 throws and leaves every
\* pixel unwritten.
C12_ChannelPromotion ==
    LET c == copyCall
        out(x, y) == c.img[<<x, TargetRow(c, y)>>]
    IN  /\ c.pc = "done" /\ c.n = 3 /\ WholeArray(c) =>
              \A q \in Pixels(c.w, c.h) :
                  out(q[1], q[2]) = <<SourceSample(c, q[1], q[2], 0),
                                      SourceSample(c, q[1], q[2], 1),
                                      SourceSample(c, q[1], q[2], 2), 255>>
        /\ c.pc = "done" /\ c.n = 4 /\ WholeArray(c) =>
              \A q \in Pixels(c.w, c.h) :
                  out(q[1], q[2])[4] = SourceSample(c, q[1], q[2], 3)
        /\ c.pc \notin {"idle", "call"} /\ c.n \notin {1, 3, 4} =>
              /\ c.pc = "threw"
              /\ \A q \in Pixels(c.w, c.h) : c.img[q] = Unwritten

\* a 3-channel array of two rows has been copied bottom-up
C12_Witness ==
    /\ copyCall.pc = "done"
    /\ copyCall.n = 3
    /\ WholeArray(copyCall)
    /\ copyCall.h = 2
    /\ copyCall.flip

(***************************************************************************)
(* Properties of HDRImage::save.                                           *)
(***************************************************************************)
KnownExtensions ==
    { <<"h","d","r">>, <<"p","f","m">>, <<"e","x","r">>, <<"p","p","m">>,
      <<"p","n","g">>, <<"b","m","p">>, <<"t","g","a">>, <<"j","p","g">>,
      <<"j","p","e","g">> }

Saving == saveCall.pc /= "idle"

ToFloat == extension(saveCall.filename) \in FloatExtensions

Channels == 1..3

Abs(v) == IF v < 0 THEN -v ELSE v

\* C13: at every point of a call of save, and after it has returned true,
\* returned false or thrown, the image it was called on has the dimensions
\* and the pixels it had at the call.
C13_SaveLeavesImage == Saving => saveCall.this = saveCall.before

\* save has thrown after it adjusted a copy
C13_Witness ==
    /\ Saving
    /\ saveCall.pc = "returned"
    /\ saveCall.ret = "threw"
    /\ saveCall.img = "imgCopy"
    /\ saveCall.imgCopy /= saveCall.this

\* C14: once save is past the tone adjustment, the pixels it goes on to
\* write are the pixels of the image times gain, then for a target that is
\* not hdr, pfm or exr sRGB-encoded iff sRGB is requested and raised to
\* 1 / gamma iff sRGB is not requested and gamma is not 1, never both; for
\* hdr, pfm and exr neither curve is applied.
C14_CurveSelection ==
    Saving /\ saveCall.pc \notin {"call", "tonemap"} =>
      LET sv       == saveCall
          expected == IF ToFloat THEN {}
                      ELSE (IF sv.sRGB THEN {"sRGB"} ELSE {})
                           \cup (IF ~sv.sRGB /\ sv.gamma /= 1 THEN {"gamma"} ELSE {})
      IN  /\ sv.curves = expected
          /\ sv.curves /= {"sRGB", "gamma"}
          /\ Img(sv) = ToneImage(sv.before, sv.gain, expected, sv.gamma)

\* sRGB and a gamma of 2 were both requested for a PNG
C14_Witness ==
    /\ Saving
    /\ saveCall.pc = "encode"
    /\ saveCall.extension = <<"p","n","g">>
    /\ saveCall.sRGB
    /\ saveCall.gamma = 2
    /\ saveCall.curves = {"sRGB"}

\* C15: when the lower-cased extension of the path is none of hdr, pfm, exr,
\* ppm, png, bmp, tga, jpg, jpeg, save ends by throwing the
\* unknown-extension error, has called no write codec and has written no file.
C15_UnknownExtensionThrows ==
    Saving /\ extension(saveCall.filename) \notin KnownExtensions =>
      /\ saveCall.codecs = <<>>
      /\ saveCall.file = NoFile
      /\ saveCall.pc \in {"call", "tonemap", "encode", "write", "returned"}
      /\ saveCall.pc = "returned" => saveCall.ret = "threw"

\* save to a .gif path has ended
C15_Witness ==
    /\ Saving
    /\ saveCall.pc = "returned"
    /\ saveCall.filename = <<"a",".","g","i","f">>

PlainSave ==
    /\ ~saveCall.dither
    /\ saveCall.gain = 1
    /\ saveCall.gamma = 1
    /\ ~saveCall.sRGB

\* C16: an image with channels in [0, 1] saved to an 8-bit format with
\* dither off, gain 1, gamma 1 and sRGB off, and loaded again, has every
\* R, G, B within 1/255 of the original.
C16_RoundTrip8 ==
    Saving /\ saveCall.pc = "loaded" /\ ~ToFloat /\ PlainSave =>
      \A q \in DOMAIN saveCall.before.px : \A k \in Channels :
          Abs(saveCall.loaded.px[q][k] - saveCall.before.px[q][k]) <= 2

\* C16 as the code has it: the file written to ppm, png, bmp or tga holds
\* for every R, G, B a sample within 1/255 of the original, and the image
\* loaded from it holds the sRGB-to-linear conversion of that sample, with
\* alpha 1, in the same place.
C16_RoundTrip8Converted ==
    /\ Saving
    /\ saveCall.pc = "loaded"
    /\ ~ToFloat
    /\ PlainSave
    /\ extension(saveCall.filename) \notin {<<"j","p","g">>, <<"j","p","e","g">>}
    => /\ saveCall.loaded.w = saveCall.before.w
       /\ saveCall.loaded.h = saveCall.before.h
       /\ \A q \in DOMAIN saveCall.before.px :
            /\ saveCall.loaded.px[q][4] = One
            /\ \A k \in Channels :
                 LET sample == saveCall.file.samples[q][k]
                 IN  /\ Abs(2 * sample - saveCall.before.px[q][k]) <= 2
                     /\ saveCall.loaded.px[q][k] = 2 * SRGBToLinearLevels[sample + 1]

\* a two-row image went through a PNG file
C16_Witness ==
    /\ Saving
    /\ saveCall.pc = "loaded"
    /\ PlainSave
    /\ saveCall.extension = <<"p","n","g">>
    /\ saveCall.before.h = 2
    /\ saveCall.before.px[<<0, 0>>] /= saveCall.before.px[<<0, 1>>]

Oriented == cropCall.pc = "done" /\ cropCall.ret = "true"

\* the calls made after block
AfterBlock == Tail(cropCall.calls)

\* C18: when the raw path returns true, code 1 and every code outside 1..8
\* have left the cropped image as it was, pixel for pixel; code 3 has left
\* the flip-vertical of the flip-horizontal of the cropped image; for every
\* code block was called first and once, then each transform of the code
\* once, and the image is the result of these calls on the cropped image.
C18_OrientationOnce ==
    cropCall.pc /= "idle" /\ Oriented =>
      LET c == cropCall
      IN  /\ c.orientation = 1 \/ c.orientation \notin 1..8 =>
                c.this = c.cropped /\ AfterBlock = <<>>
          /\ c.orientation = 3 =>
                c.this = flippedVertical(flippedHorizontal(c.cropped))
          /\ Head(c.calls) = "block"
          /\ \A i \in 1..Len(AfterBlock) : AfterBlock[i] /= "block"
          /\ \A i, j \in 1..Len(AfterBlock) : AfterBlock[i] = AfterBlock[j] => i = j
          /\ c.orientation \in 2..8 => Len(AfterBlock) \in 1..2
          /\ c.this = IF Len(AfterBlock) = 0 THEN c.cropped
                      ELSE IF Len(AfterBlock) = 1
                      THEN Transform(AfterBlock[1], c.cropped)
                      ELSE Transform(AfterBlock[2], Transform(AfterBlock[1], c.cropped))

\* a crop of 2 x 2 pixels came back with orientation 3
C18_Witness ==
    /\ cropCall.pc /= "idle"
    /\ Oriented
    /\ cropCall.orientation = 3
    /\ cropCall.cropped.w = 2
    /\ cropCall.cropped.h = 2
    /\ cropCall.this /= cropCall.cropped

\* C20: the crop rectangle has the x-range
\* [clamp(active_area[1], 0, w), clamp(active_area[3], 0, w)] and the y-range
\* [clamp(active_area[0], 0, h), clamp(active_area[2], 0, h)], lies inside
\* the developed image and has start <= end in both, whatever the active
\* area.
C20_CropInside ==
    cropCall.pc \notin {"idle", "crop"} =>
      LET c == cropCall
      IN  /\ c.rect.x0 = clamp(c.active_area[2], 0, c.w)
          /\ c.rect.x1 = clamp(c.active_area[4], 0, c.w)
          /\ c.rect.y0 = clamp(c.active_area[1], 0, c.h)
          /\ c.rect.y1 = clamp(c.active_area[3], 0, c.h)
          /\ 0 <= c.rect.x0 /\ c.rect.x1 <= c.w
          /\ 0 <= c.rect.y0 /\ c.rect.y1 <= c.h
          /\ c.rect.x0 <= c.rect.x1
          /\ c.rect.y0 <= c.rect.y1

(***************************************************************************)
(* Properties of the row-parallel loops.                                   *)
(***************************************************************************)
\* the memory after the rows of a loop have run one after the other, pixel
\* i of the row-major order being the next
RECURSIVE InOrder(_, _, _, _)
InOrder(stage, r, mem, i) ==
    IF i = r.w * r.h THEN mem
    ELSE InOrder(stage, r, PixelDone(stage, r, i % r.w, i \div r.w, mem), i + 1)

\* the memory after the loops from number s on have run in turn
RECURSIVE Sequential(_, _, _)
Sequential(r, mem, s) ==
    IF s > Len(r.pipeline) THEN mem
    ELSE Sequential(r,
                    IF r.pipeline[s] = "demosaic" THEN Demosaiced(r, mem)
                    ELSE InOrder(r.pipeline[s], r, mem, 0),
                    s + 1)

\* C19: in every row-parallel loop no row unit writes a cell another unit of
\* the loop has written or read, nor reads a cell another unit has written;
\* when the loops have ended the arrays hold what the rows run one after the
\* other would have left, whatever the interleaving was; and no unit of a
\* loop has started while a unit of the loop before it had not ended.
C19_RowsIndependent ==
    stageRun.pc /= "idle" =>
      LET r == stageRun
      IN  /\ ~r.race
          /\ r.pc = "done" =>
                r.mem = Sequential(r, InitialMemory(r.w, r.h), 1)
          /\ \A s \in 2..Len(r.pipeline) :
                (\E y \in 0..(r.h - 1) : r.progress[s][y] > 0) =>
                \A y \in 0..(r.h - 1) : r.progress[s - 1][y] = r.w

\* the second row of a loop that writes bottom-up is ahead of the first
C19_Witness ==
    /\ stageRun.pc = "run"
    /\ stageRun.pipeline = <<"copy">>
    /\ stageRun.flip
    /\ stageRun.h = 2
    /\ stageRun.w = 2
    /\ stageRun.progress[1][1] = 2
    /\ stageRun.progress[1][0] = 1

(***************************************************************************)
(* Properties of the false-colour path of copyPixelsFromArray.             *)
(***************************************************************************)
\* C21: in the copy of a 1-channel array every sample that indexes
\* turboRGBf is positive and its index is in 0..255, also when the positive
\* samples are all equal; and a copied row holds (0, 0, 0, 0) for every
\* sample <= 0.
C21_IndexInTable ==
    copyCall.pc /= "idle" /\ copyCall.n = 1 =>
      LET c == copyCall
      IN  /\ \A l \in c.lookups : l[1] > 0 /\ l[2] \in 0..255
          /\ \A y \in c.rows : \A x \in 0..(c.w - 1) :
                c.data[x + y * c.w + 1] <= 0 =>
                  c.img[<<x, TargetRow(c, y)>>] = <<0, 0, 0, 0>>

(***************************************************************************)
(* Properties of the loads of the unpackers.                               *)
(***************************************************************************)
\* C22: every index of data that decode12BitToFloat and decode14BitToFloat
\* load is at least 0 and less than the size of the packed buffer, the
\* bytes that hold width * height samples of 12 or 14 bits, with and
\* without swapEndian.
C22_ReadsInsidePacked ==
    upc /= "idle" /\ depth \in {12, 14} =>
      \A a \in reads : 0 <= a /\ a < PackedSize(depth, width * height)

====
